---- MODULE Spec2Model ----
(***************************************************************************)
(* A model of granola-cli's participant extraction                         *)
(* (src/src/lib/attendees.ts) and of its local document store accessors    *)
(* (the cache part of src/src/lib/output.ts).                              *)
(*                                                                         *)
(* JSON values are records [t, s, n]: t is the JavaScript type tag, s the  *)
(* characters of a string (a sequence of one-character strings), n the     *)
(* value of a number or boolean.  A TypeError raised by the code is the    *)
(* value Throw, which every operator propagates.                           *)
(***************************************************************************)
EXTENDS Integers, Sequences, FiniteSets, TLC

VARIABLES people, orgEmail, pc, result, platform, file, cachedState,
          cacheModTime, modTime, config, pager

vars ==
  <<people, orgEmail, pc, result, platform, file, cachedState, cacheModTime,
    modTime, config, pager>>

\* The inputs of the participant extraction, and the process's platform and
\* cache file with the module-level variables of the store accessors.
attVars == <<people, orgEmail>>
cacheVars == <<platform, file, cachedState, cacheModTime>>

\* The configuration file of the token extraction, and the iteration of
\* listAllDocuments.
clientVars == <<config, pager>>

\* ------------------------------------------------------------ bounds

\* Longest people.attendees array the inputs hold.
MaxAttendees == 2

\* ------------------------------------------------------- JSON values

Undef == [t |-> "undef", s |-> <<>>, n |-> 0]
Null == [t |-> "null", s |-> <<>>, n |-> 0]
Str(chars) == [t |-> "str", s |-> chars, n |-> 0]
Num(k) == [t |-> "num", s |-> <<>>, n |-> k]
Bool(b) == [t |-> "bool", s |-> <<>>, n |-> IF b THEN 1 ELSE 0]
Obj == [t |-> "obj", s |-> <<>>, n |-> 0]
Arr == [t |-> "arr", s |-> <<>>, n |-> 0]
Throw == [t |-> "throw", s |-> <<>>, n |-> 0]

IsThrow(v) == v.t = "throw"

\* JavaScript truthiness: undefined, null, "", 0 and false are falsy.
Truthy(v) ==
  CASE v.t \in {"undef", "null"} -> FALSE
    [] v.t = "str" -> v.s # <<>>
    [] v.t \in {"num", "bool"} -> v.n # 0
    [] OTHER -> TRUE

\* a || b
Or(a, b) == IF Truthy(a) THEN a ELSE b

\* String.prototype.toLowerCase, one character.
LowerChar(c) ==
  CASE c = "A" -> "a"
    [] c = "B" -> "b"
    [] c = "G" -> "g"
    [] c = "X" -> "x"
    [] OTHER -> c

\* String.prototype.toLowerCase.
LowerStr(chars) == [i \in 1..Len(chars) |-> LowerChar(chars[i])]

\* Index of the first "@" from position i on, 0 when there is none.
RECURSIVE IndexOfAt(_, _)
IndexOfAt(chars, i) ==
  IF i > Len(chars) THEN 0
  ELSE IF chars[i] = "@" THEN i
  ELSE IndexOfAt(chars, i + 1)

\* chars.split('@')[0]
SplitAt0(chars) ==
  LET k == IndexOfAt(chars, 1)
  IN IF k = 0 THEN chars ELSE SubSeq(chars, 1, k - 1)

\* v.split('@')[0]: a TypeError when v has no split method.
splitLocal(v) == IF v.t = "str" THEN Str(SplitAt0(v.s)) ELSE Throw

GroupLit == Str(<<"(", "g", "r", "o", "u", "p", ")">>)
UnknownLit == Str(<<"(", "u", "n", "k", "n", "o", "w", "n", ")">>)

\* ------------------------------------------------------- raw entries

\* details.group.members: absent, a non-array value, or an array of items.
NoMembers == [t |-> "undef", items |-> <<>>]
MembersVal(tag) == [t |-> tag, items |-> <<>>]
MembersArr(items) == [t |-> "arr", items |-> items]

\* One element of people.attendees or of a members array: an object with
\* name, email, details.group.members and details.person.name.fullName,
\* or a value that is no object (isObj FALSE).
Entry(name, email, members, fullName) ==
  [isObj |-> TRUE, name |-> name, email |-> email, members |-> members,
   fullName |-> fullName]
EmptyEntry == Entry(Undef, Undef, NoMembers, Undef)
NonObject == [EmptyEntry EXCEPT !.isObj = FALSE]

\* ------------------------------------------------------ attendees.ts

\* An ExtractedAttendee; hasMemberCount tells whether memberCount is set.
Att(name, email, isGroup, hasMemberCount, memberCount) ==
  [name |-> name, email |-> email, isGroup |-> isGroup,
   hasMemberCount |-> hasMemberCount, memberCount |-> memberCount]
NoAtt == Att(Undef, Undef, FALSE, FALSE, 0)

\* lower(s): (s || '').toLowerCase()
lower(v) ==
  LET x == Or(v, Str(<<>>))
  IN IF x.t = "str" THEN Str(LowerStr(x.s)) ELSE Throw

\* dedupeKey without the lowercasing: att.email || att.name
dedupeKeyCaseSensitive(att) ==
  LET k == Or(att.email, Or(att.name, Str(<<>>)))
  IN IF k.t = "str" THEN k ELSE Throw

\* dedupeKey(att): lower(att.email) || lower(att.name)
dedupeKey(att) ==
  LET e == lower(att.email)
  IN IF IsThrow(e) THEN Throw
     ELSE IF Truthy(e) THEN e
     ELSE lower(att.name)

\* extractFullName(details)
extractFullName(entry) == Or(entry.fullName, Undef)

\* The test without Array.isArray: group?.members alone.
isGroupMembersTruthy(members) == members.t # "undef"

\* group?.members && Array.isArray(group.members)
isGroupMembers(members) == members.t = "arr"

\* The object extractFromEntry hands to addAttendee for a group entry.
groupAttendee(entry) ==
  Att(Or(entry.name, Or(entry.email, GroupLit)), entry.email, TRUE, TRUE,
      Len(entry.members.items))

\* The display name of an individual entry (Throw on a TypeError).
individualName(entry) ==
  LET first == Or(entry.name, extractFullName(entry))
      fullName == IF Truthy(first) THEN first
                  ELSE IF Truthy(entry.email) THEN splitLocal(entry.email)
                  ELSE Undef
  IN IF IsThrow(fullName) THEN Throw ELSE Or(fullName, UnknownLit)

\* The object extractFromEntry hands to addAttendee (name Throw on a TypeError).
entryAttendee(entry) ==
  IF isGroupMembers(entry.members) THEN groupAttendee(entry)
  ELSE Att(individualName(entry), entry.email, FALSE, FALSE, 0)

\* addAttendee(a) on the accumulator [seen, attendees, threw].
addAttendee(acc, a) ==
  LET key == dedupeKey(a)
  IN IF IsThrow(a.name) \/ IsThrow(key) THEN [acc EXCEPT !.threw = TRUE]
     ELSE IF ~Truthy(key) \/ key.s \in acc.seen THEN acc
     ELSE [acc EXCEPT !.seen = @ \cup {key.s},
                      !.attendees = Append(@, a)]

\* extractFromEntry(entry)
extractFromEntry(acc, entry) ==
  IF acc.threw THEN acc ELSE addAttendee(acc, entryAttendee(entry))

\* The for loop over people.attendees, from item i on.
RECURSIVE attendeesLoop(_, _, _)
attendeesLoop(acc, items, i) ==
  IF i > Len(items) THEN acc
  ELSE attendeesLoop(
         IF items[i].isObj THEN extractFromEntry(acc, items[i]) ELSE acc,
         items, i + 1)

\* extractAttendees(people): [threw, attendees].
extractAttendees(p) ==
  IF p.t # "obj" THEN [threw |-> FALSE, attendees |-> <<>>]
  ELSE
    LET acc0 == [seen |-> {}, attendees |-> <<>>, threw |-> FALSE]
        acc1 == IF p.creator.t = "undef" THEN acc0
                ELSE extractFromEntry(acc0, p.creator.e)
        acc2 == IF p.attendees.t = "arr"
                THEN attendeesLoop(acc1, p.attendees.items, 1)
                ELSE acc1
    IN [threw |-> acc2.threw,
        attendees |-> IF acc2.threw THEN <<>> ELSE acc2.attendees]

\* The member key with the name tried first: lower(mName) || lower(mEmail)
memberKeyNameFirst(mEmail, mName) ==
  LET k == lower(mName)
  IN IF IsThrow(k) THEN Throw
     ELSE IF Truthy(k) THEN k
     ELSE lower(mEmail)

\* The key of a group member: lower(mEmail) || lower(mName)
memberKey(mEmail, mName) ==
  LET e == lower(mEmail)
  IN IF IsThrow(e) THEN Throw
     ELSE IF Truthy(e) THEN e
     ELSE lower(mName)

\* The for loop of extractGroupMembers over members, from item i on, on the
\* accumulator [seen, out, threw].
RECURSIVE membersLoop(_, _, _)
membersLoop(acc, members, i) ==
  IF i > Len(members) \/ acc.threw THEN acc
  ELSE IF ~members[i].isObj THEN membersLoop(acc, members, i + 1)
  ELSE
    LET m == members[i]
        mEmail == m.email
        mName == Or(m.name, extractFullName(m))
        key == memberKey(mEmail, mName)
        next == IF IsThrow(key) THEN [acc EXCEPT !.threw = TRUE]
                ELSE IF ~Truthy(key) \/ key.s \in acc.seen THEN acc
                ELSE [acc EXCEPT
                        !.seen = @ \cup {key.s},
                        !.out = Append(@, Att(Or(mName, UnknownLit), mEmail,
                                              FALSE, FALSE, 0))]
    IN membersLoop(next, members, i + 1)

\* extractGroupMembers(entry): [threw, members].
extractGroupMembers(entry) ==
  IF ~isGroupMembers(entry.members) THEN [threw |-> FALSE, members |-> <<>>]
  ELSE
    LET acc == membersLoop([seen |-> {}, out |-> <<>>, threw |-> FALSE],
                           entry.members.items, 1)
    IN [threw |-> acc.threw,
        members |-> IF acc.threw THEN <<>> ELSE acc.out]

\* find with a case-sensitive comparison: a.email === organizerEmail
RECURSIVE findOrganizerExact(_, _, _)
findOrganizerExact(attendees, organizerEmail, i) ==
  IF i > Len(attendees) THEN 0
  ELSE IF attendees[i].email = organizerEmail THEN i
  ELSE findOrganizerExact(attendees, organizerEmail, i + 1)

\* attendees.find((a) => lower(a.email) === lower(organizerEmail)): the index
\* of the first match from i on, 0 when there is none.
RECURSIVE findOrganizer(_, _, _)
findOrganizer(attendees, organizerEmail, i) ==
  IF i > Len(attendees) THEN 0
  ELSE IF lower(attendees[i].email) = lower(organizerEmail) THEN i
  ELSE findOrganizer(attendees, organizerEmail, i + 1)

\* The organizer of extractParticipants: [threw, has, att].
organizerOf(attendees, organizerEmail) ==
  IF ~Truthy(organizerEmail)
  THEN [threw |-> FALSE, has |-> FALSE, att |-> NoAtt]
  ELSE IF organizerEmail.t # "str"
  THEN [threw |-> TRUE, has |-> FALSE, att |-> NoAtt]
  ELSE
    LET k == findOrganizer(attendees, organizerEmail, 1)
        name == IF k # 0 THEN Or(attendees[k].name, splitLocal(organizerEmail))
                ELSE splitLocal(organizerEmail)
    IN [threw |-> FALSE, has |-> TRUE,
        att |-> Att(name, organizerEmail, FALSE, FALSE, 0)]

\* The filter on the dedup key instead of the email.
keepsAttendeeByKey(a, organizerEmail) == dedupeKey(a) # lower(organizerEmail)

\* attendees.filter((a) => lower(a.email) !== lower(organizer.email))
keepsAttendee(a, organizerEmail) == lower(a.email) # lower(organizerEmail)

\* filteredAttendees
filterAttendees(attendees, org) ==
  IF org.has /\ Truthy(org.att.email)
  THEN SelectSeq(attendees, LAMBDA a : keepsAttendee(a, org.att.email))
  ELSE attendees

\* The descriptor with memberCount reconciled to the deduplicated list.
groupDescriptorDeduped(entry) ==
  Att(Or(entry.name, Or(entry.email, GroupLit)), entry.email, TRUE, TRUE,
      Len(extractGroupMembers(entry).members))

\* The group descriptor of an expandedGroups pair.
groupDescriptor(entry) ==
  Att(Or(entry.name, Or(entry.email, GroupLit)), entry.email, TRUE, TRUE,
      Len(entry.members.items))

\* The for loop that fills expandedGroups, from item i on, on the
\* accumulator [threw, groups].
RECURSIVE expandLoop(_, _, _)
expandLoop(acc, items, i) ==
  IF i > Len(items) \/ acc.threw THEN acc
  ELSE IF ~items[i].isObj \/ ~isGroupMembers(items[i].members)
  THEN expandLoop(acc, items, i + 1)
  ELSE
    LET got == extractGroupMembers(items[i])
        next == IF got.threw THEN [acc EXCEPT !.threw = TRUE]
                ELSE [acc EXCEPT !.groups =
                        Append(@, [group |-> groupDescriptor(items[i]),
                                   members |-> got.members])]
    IN expandLoop(next, items, i + 1)

\* The expansion that visits the creator too.
expandGroupsWithCreator(p) ==
  IF p.t = "obj" /\ p.attendees.t = "arr"
  THEN expandLoop([threw |-> FALSE, groups |-> <<>>],
                  (IF p.creator.t = "obj" THEN <<p.creator.e>> ELSE <<>>)
                    \o p.attendees.items, 1)
  ELSE [threw |-> FALSE, groups |-> <<>>]

\* expandedGroups of extractParticipants when expandGroups is set.
expandGroupsOf(p) ==
  IF p.t = "obj" /\ p.attendees.t = "arr"
  THEN expandLoop([threw |-> FALSE, groups |-> <<>>], p.attendees.items, 1)
  ELSE [threw |-> FALSE, groups |-> <<>>]

\* The members of all pairs, flattened.
RECURSIVE flatMembers(_, _)
flatMembers(groups, i) ==
  IF i > Len(groups) THEN <<>>
  ELSE groups[i].members \o flatMembers(groups, i + 1)

\* What a call that raised leaves: no value.
Thrown(op, expand) ==
  [op |-> op, expand |-> expand, threw |-> TRUE, hasOrganizer |-> FALSE,
   organizer |-> NoAtt, attendees |-> <<>>, hasExpanded |-> FALSE,
   expandedGroups |-> <<>>]

\* extractParticipants that expands the groups into the attendees list.
extractParticipantsFlat(p, organizerEmail, expand) ==
  LET ea == extractAttendees(p)
      org == organizerOf(ea.attendees, organizerEmail)
      exp == IF expand THEN expandGroupsOf(p)
             ELSE [threw |-> FALSE, groups |-> <<>>]
  IN IF ea.threw \/ org.threw \/ exp.threw
     THEN Thrown("extractParticipants", expand)
     ELSE [op |-> "extractParticipants", expand |-> expand, threw |-> FALSE,
           hasOrganizer |-> org.has, organizer |-> org.att,
           attendees |-> filterAttendees(ea.attendees, org)
                           \o flatMembers(exp.groups, 1),
           hasExpanded |-> expand, expandedGroups |-> exp.groups]

\* extractParticipants that leaves expandedGroups out when it is empty.
extractParticipantsOmitEmpty(p, organizerEmail, expand) ==
  LET ea == extractAttendees(p)
      org == organizerOf(ea.attendees, organizerEmail)
      exp == IF expand THEN expandGroupsOf(p)
             ELSE [threw |-> FALSE, groups |-> <<>>]
  IN IF ea.threw \/ org.threw \/ exp.threw
     THEN Thrown("extractParticipants", expand)
     ELSE [op |-> "extractParticipants", expand |-> expand, threw |-> FALSE,
           hasOrganizer |-> org.has, organizer |-> org.att,
           attendees |-> filterAttendees(ea.attendees, org),
           hasExpanded |-> expand /\ exp.groups # <<>>,
           expandedGroups |-> exp.groups]

\* extractParticipants(doc, {expandGroups}) on doc.people and
\* doc.google_calendar_event?.organizer?.email.
extractParticipants(p, organizerEmail, expand) ==
  LET ea == extractAttendees(p)
      org == organizerOf(ea.attendees, organizerEmail)
      exp == IF expand THEN expandGroupsOf(p)
             ELSE [threw |-> FALSE, groups |-> <<>>]
  IN IF ea.threw \/ org.threw \/ exp.threw
     THEN Thrown("extractParticipants", expand)
     ELSE [op |-> "extractParticipants", expand |-> expand, threw |-> FALSE,
           hasOrganizer |-> org.has, organizer |-> org.att,
           attendees |-> filterAttendees(ea.attendees, org),
           hasExpanded |-> expand, expandedGroups |-> exp.groups]

\* The value the caller of extractAttendees(doc.people) gets.
attendeesResult(p) ==
  LET ea == extractAttendees(p)
  IN IF ea.threw THEN Thrown("extractAttendees", FALSE)
     ELSE [op |-> "extractAttendees", expand |-> FALSE, threw |-> FALSE,
           hasOrganizer |-> FALSE, organizer |-> NoAtt,
           attendees |-> ea.attendees, hasExpanded |-> FALSE,
           expandedGroups |-> <<>>]

NoResult ==
  [op |-> "none", expand |-> FALSE, threw |-> FALSE, hasOrganizer |-> FALSE,
   organizer |-> NoAtt, attendees |-> <<>>, hasExpanded |-> FALSE,
   expandedGroups |-> <<>>]

\* ------------------------------------------------------------ inputs

\* doc.people: absent, a value that is no object, or an object whose creator
\* is absent (or falsy), a truthy primitive or an entry, and whose attendees
\* is absent, no array, or an array.
NoPeople == [t |-> "undef", creator |-> [t |-> "undef", e |-> EmptyEntry],
             attendees |-> [t |-> "undef", items |-> <<>>]]
PrimPeople == [NoPeople EXCEPT !.t = "prim"]
PeopleObj(creator, attendees) ==
  [t |-> "obj", creator |-> creator, attendees |-> attendees]
NoCreator == [t |-> "undef", e |-> EmptyEntry]
PrimCreator == [t |-> "prim", e |-> EmptyEntry]
CreatorEntry(e) == [t |-> "obj", e |-> e]
NoAttendees == [t |-> "undef", items |-> <<>>]
NonArrayAttendees == [t |-> "nonarr", items |-> <<>>]
AttendeesArr(items) == [t |-> "arr", items |-> items]

\* Sequences over S of length at most n.
SeqsUpTo(S, n) == UNION {[1..k -> S] : k \in 0..n}

\* The people records with a creator of Creators and attendees arrays over
\* Pool, plus the shapes without entries.
PeopleOver(Creators, Pool) ==
  {NoPeople, PrimPeople, PeopleObj(NoCreator, NonArrayAttendees)}
  \cup {PeopleObj(c, NoAttendees) : c \in Creators}
  \cup {PeopleObj(c, AttendeesArr(a)) :
          c \in Creators, a \in SeqsUpTo(Pool, MaxAttendees)}

sA == <<"A">>
sAB == <<"A", "B">>
sB == <<"B">>
sG == <<"G">>
eax == <<"a", "@", "x">>
eAX == <<"A", "@", "X">>
ebx == <<"b", "@", "x">>
eBX == <<"B", "@", "X">>
egx == <<"g", "@", "x">>
eGX == <<"G", "@", "X">>
eAtx == <<"@", "x">>

Individual(name, email) == Entry(name, email, NoMembers, Undef)

\* String-typed individuals: emails that differ in case only, a name that
\* reads like an email, entries without name and email, empty strings.
IndividualPool ==
  {Individual(Str(sB), Str(eax)),
   Individual(Str(sAB), Str(eAX)),
   Individual(Str(eax), Undef),
   Individual(Undef, Str(ebx)),
   Individual(Undef, Str(eAtx)),
   Individual(Str(<<>>), Str(<<>>)),
   Entry(Undef, Undef, NoMembers, Str(sB)),
   EmptyEntry,
   NonObject}
IndividualCreators ==
  {NoCreator, PrimCreator, CreatorEntry(Individual(Str(sAB), Str(eAX))),
   CreatorEntry(EmptyEntry)}
IndividualOrganizers == {Undef, Str(<<>>), Str(eAX), Str(ebx), Str(eAtx)}

\* Members arrays: the two members of the spec's expansion scenario; one with
\* duplicate keys, a non-object and a nameless member; one with a member
\* named by details.person.name.fullName only.
Members1 == <<Individual(Str(sA), Undef), Individual(Undef, Str(eax))>>
Members2 ==
  <<Individual(Str(sA), Undef), NonObject, Individual(Str(<<"a">>), Undef),
    EmptyEntry, Individual(Str(sB), Str(ebx)), Individual(Undef, Str(eBX))>>
Members3 ==
  <<Entry(Undef, Undef, NoMembers, Str(sB)), Individual(Undef, Str(eax))>>

\* Group entries, entries whose members is no array or the empty array, and
\* an individual whose key also occurs among the members.
GroupPool ==
  {Entry(Str(sG), Str(egx), MembersArr(Members1), Undef),
   Entry(Undef, Undef, MembersArr(Members2), Undef),
   Entry(Str(sAB), Str(eGX), MembersArr(Members3), Undef),
   Entry(Str(sB), Str(ebx), MembersArr(<<>>), Undef),
   Entry(Str(sB), Str(ebx), MembersVal("num"), Undef),
   Entry(Undef, Undef, MembersVal("str"), Undef),
   Entry(Str(sA), Undef, MembersVal("obj"), Undef),
   Individual(Str(sA), Str(eax)),
   NonObject}
GroupCreators ==
  {NoCreator, CreatorEntry(Individual(Str(sA), Str(eax))),
   CreatorEntry(Entry(Str(sG), Str(egx), MembersArr(Members1), Undef))}
GroupOrganizers == {Undef, Str(eGX), Str(eax)}

\* Entries whose name, email or fullName is no string.
JsonPool ==
  {Individual(Num(5), Undef),
   Individual(Obj, Str(eax)),
   Individual(Undef, Num(5)),
   Individual(Bool(TRUE), Undef),
   Individual(Arr, Undef),
   Individual(Str(sA), Obj),
   Individual(Str(sA), Str(eax)),
   Individual(Num(0), Bool(FALSE)),
   Individual(Null, Str(ebx)),
   Entry(Undef, Undef, NoMembers, Num(5)),
   Entry(Str(sG), Str(egx), MembersArr(<<Individual(Undef, Num(5))>>), Undef),
   NonObject}
JsonCreators == {NoCreator, PrimCreator, CreatorEntry(Individual(Num(5), Undef))}
JsonOrganizers == {Undef, Null, Num(5), Obj, Bool(TRUE), Str(eAX)}

\* ------------------------------------------------- the cache, unloaded

\* let cachedState: CacheState | null = null
NullState ==
  [t |-> "null", documents |-> <<>>, folders |-> <<>>, shared |-> <<>>]

\* No cache file on disk.
NoContent == [kind |-> "none", state |-> NullState]
FileAbsent == [exists |-> FALSE, mtime |-> 0, content |-> NoContent]

\* The module-level variables of output.ts as the module is loaded; no call
\* of loadCache has its local modTime yet.
CacheUnloaded ==
  /\ cachedState = NullState
  /\ cacheModTime = 0
  /\ modTime = 0

\* ------------------------------------------------- the client, unused

\* A value of the supabase.json field workos_tokens or cognito_tokens, by
\* what JSON.parse makes of it: absent (or the empty string), text that does
\* not parse, text that parses to null, to an object without access_token,
\* or to an object with the access_token token.
TokenField(kind, token) == [kind |-> kind, token |-> token]
AbsentField == TokenField("absent", Undef)

\* supabase.json: absent, text that is no JSON, the text null, or an object
\* with its two token fields.
ConfigFile(kind, workos, cognito) ==
  [kind |-> kind, workos |-> workos, cognito |-> cognito]
NoConfig == ConfigFile("absent", AbsentField, AbsentField)

\* listAllDocuments not called: no cursor, no response, nothing requested
\* and nothing yielded.
PagerIdle ==
  [at |-> "idle", cursor |-> Undef, requests |-> <<>>, responses |-> <<>>,
   next |-> 1, yielded |-> <<>>]

\* No token is looked for and no documents are listed.
NoClient ==
  /\ config = NoConfig
  /\ pager = PagerIdle

\* ----------------------------------------------------- specification

InitOver(P, O) ==
  /\ people \in P
  /\ orgEmail \in O
  /\ pc = "idle"
  /\ result = NoResult
  /\ platform = "darwin"
  /\ file = FileAbsent
  /\ CacheUnloaded
  /\ NoClient

\* String-typed individual entries.
Init == InitOver(PeopleOver(IndividualCreators, IndividualPool), IndividualOrganizers)

\* Group entries.
InitGroups == InitOver(PeopleOver(GroupCreators, GroupPool), GroupOrganizers)

\* Arbitrary JSON values as names and emails.
InitJson == InitOver(PeopleOver(JsonCreators, JsonPool), JsonOrganizers)

\* A caller (output.ts) calls extractAttendees(doc.people).
CallExtractAttendees ==
  /\ pc = "idle"
  /\ result' = attendeesResult(people)
  /\ pc' = "done"
  /\ UNCHANGED <<attVars, clientVars, modTime, cacheVars>>

\* A caller calls extractParticipants(doc, {expandGroups}).
CallExtractParticipants ==
  /\ pc = "idle"
  /\ \E expand \in BOOLEAN :
       result' = extractParticipants(people, orgEmail, expand)
  /\ pc' = "done"
  /\ UNCHANGED <<attVars, clientVars, modTime, cacheVars>>

Next == CallExtractAttendees \/ CallExtractParticipants

Spec == Init /\ [][Next]_vars
SpecGroups == InitGroups /\ [][Next]_vars
SpecJson == InitJson /\ [][Next]_vars

\* ------------------------------------------------------------ claims

Returned(op) == pc = "done" /\ result.op = op /\ ~result.threw

\* The raw entries extractAttendees visits, in its order: the creator, then
\* the objects of the attendees array.
RawEntries(p) ==
  IF p.t # "obj" THEN <<>>
  ELSE (IF p.creator.t = "undef" THEN <<>> ELSE <<p.creator.e>>)
       \o (IF p.attendees.t = "arr"
           THEN SelectSeq(p.attendees.items, LAMBDA it : it.isObj)
           ELSE <<>>)

\* The dedup key of an attendee as the spec words it: the lowercase email if
\* there is one, else the lowercase name.
SpecKey(a) ==
  IF Truthy(a.email) THEN LowerStr(a.email.s) ELSE LowerStr(a.name.s)

\* The key of the attendee raw entry e stands for.
EntryKey(e) == SpecKey(entryAttendee(e))

\* The positions of the raw entries that are the first with their key.
FirstSeen(E) ==
  {i \in 1..Len(E) :
     /\ EntryKey(E[i]) # <<>>
     /\ \A j \in 1..(i - 1) : EntryKey(E[j]) # EntryKey(E[i])}

\* The k-th smallest element of the set of positions I.
Nth(I, k) == CHOOSE i \in I : Cardinality({j \in I : j < i}) = k - 1

LacksNameAndEmail(e) == ~Truthy(e.name) /\ ~Truthy(e.email)

\* C1: extractAttendees and extractParticipants never raise, whatever the
\* JSON types of the names, the emails and the organizer email: every call
\* returns a value.
C1_NeverRaises == pc = "done" => ~result.threw

\* C2: when every entry of the people record lacks both name and email,
\* extractAttendees returns the empty sequence.
C2_NamelessEntriesSkipped ==
  (/\ Returned("extractAttendees")
   /\ \A i \in 1..Len(RawEntries(people)) :
        LacksNameAndEmail(RawEntries(people)[i]))
  => result.attendees = <<>>

\* C3: the output of extractAttendees holds no two attendees with the same
\* dedup key; it is, in input order (creator, then attendees[0..n]), the
\* attendees of the entries that are the first with their key.
C3_FirstSeenWins ==
  Returned("extractAttendees") =>
    LET E == RawEntries(people)
        F == FirstSeen(E)
        out == result.attendees
    IN /\ \A i, j \in 1..Len(out) :
            i # j => SpecKey(out[i]) # SpecKey(out[j])
       /\ Len(out) = Cardinality(F)
       /\ \A k \in 1..Len(out) : out[k] = entryAttendee(E[Nth(F, k)])

\* C3's case: two entries whose emails differ in letter case only, the later
\* one with the longer name, and only the earlier one is in the output.
C3_Witness ==
  /\ Returned("extractAttendees")
  /\ \E i, j \in 1..Len(RawEntries(people)) :
       LET a == RawEntries(people)[i]
           b == RawEntries(people)[j]
       IN /\ i < j
          /\ a.email.t = "str" /\ b.email.t = "str" /\ a.email.s # <<>>
          /\ a.email # b.email
          /\ LowerStr(a.email.s) = LowerStr(b.email.s)
          /\ Len(b.name.s) > Len(a.name.s)
          /\ \E k \in 1..Len(result.attendees) :
               result.attendees[k] = entryAttendee(a)
          /\ \A k \in 1..Len(result.attendees) :
               result.attendees[k].email # b.email

\* The raw entry an output attendee with key k stands for: the first entry
\* with that key.
SourceOf(p, k) ==
  LET E == RawEntries(p)
  IN E[CHOOSE i \in FirstSeen(E) : EntryKey(E[i]) = k]

\* The attendees-array entries whose members is an array, in raw order.
ArrayItems(p) ==
  IF p.t = "obj" /\ p.attendees.t = "arr"
  THEN SelectSeq(p.attendees.items,
                 LAMBDA it : it.isObj /\ it.members.t = "arr")
  ELSE <<>>

\* members is present and no array: a number, a string or a plain object.
NonArrayMembers(e) == e.members.t \in {"num", "str", "obj"}

\* C4: an entry whose details.group.members is present but no array is
\* extracted as an individual (isGroup false, no memberCount), and
\* expandedGroups holds no pair for it: it holds at most one pair per entry
\* whose members is an array, each with that entry's email.
C4_NonArrayMembersIsIndividual ==
  (pc = "done" /\ ~result.threw) =>
    /\ \A k \in 1..Len(result.attendees) :
         LET o == result.attendees[k]
         IN NonArrayMembers(SourceOf(people, SpecKey(o)))
              => ~o.isGroup /\ ~o.hasMemberCount
    /\ Len(result.expandedGroups) <= Len(ArrayItems(people))
    /\ \A k \in 1..Len(result.expandedGroups) :
         \E i \in 1..Len(ArrayItems(people)) :
           result.expandedGroups[k].group.email = ArrayItems(people)[i].email

\* C4's case: expansion was requested, the only entries of the attendees
\* array have a non-array members, one of them is in the output.
C4_Witness ==
  /\ Returned("extractParticipants") /\ result.expand
  /\ people.t = "obj" /\ people.attendees.t = "arr"
  /\ Len(people.attendees.items) = MaxAttendees
  /\ \A i \in 1..Len(people.attendees.items) :
       NonArrayMembers(people.attendees.items[i])
  /\ \E k \in 1..Len(result.attendees) :
       NonArrayMembers(SourceOf(people, SpecKey(result.attendees[k])))
  /\ result.expandedGroups = <<>>

\* C5: an entry whose members is the empty array is extracted as an
\* individual (isGroup false, no memberCount) and contributes no pair to
\* expandedGroups: there are no more pairs than entries with a non-empty
\* members array.
C5_EmptyMembersIsIndividual ==
  (pc = "done" /\ ~result.threw) =>
    /\ \A k \in 1..Len(result.attendees) :
         LET o == result.attendees[k]
             e == SourceOf(people, SpecKey(o))
         IN (e.members.t = "arr" /\ e.members.items = <<>>)
              => ~o.isGroup /\ ~o.hasMemberCount
    /\ Len(result.expandedGroups)
         <= Len(SelectSeq(ArrayItems(people),
                          LAMBDA it : it.members.items # <<>>))

\* The attendees of extractAttendees(doc.people) whose email equals the
\* organizer email case-insensitively.
MatchesOrganizer(a) ==
  /\ Truthy(orgEmail) /\ Truthy(a.email)
  /\ LowerStr(a.email.s) = LowerStr(orgEmail.s)

\* C6: with an organizer email present the organizer has that email as given,
\* isGroup false, and the name of the extracted attendee whose email equals
\* it case-insensitively, else the part of the email before "@"; with the
\* email absent or empty there is no organizer.
C6_Organizer ==
  Returned("extractParticipants") =>
    IF Truthy(orgEmail)
    THEN LET ea == extractAttendees(people).attendees
             M == {k \in 1..Len(ea) : MatchesOrganizer(ea[k])}
         IN /\ result.hasOrganizer
            /\ result.organizer.email = orgEmail
            /\ ~result.organizer.isGroup
            /\ ~result.organizer.hasMemberCount
            /\ \A k \in M : result.organizer.name = ea[k].name
            /\ M = {} => result.organizer.name = Str(SplitAt0(orgEmail.s))
    ELSE ~result.hasOrganizer

\* C6's case: the organizer email differs in case from the email of an
\* extracted attendee, whose name is not the local part of the email.
C6_Witness ==
  /\ Returned("extractParticipants")
  /\ result.hasOrganizer
  /\ \E k \in 1..Len(extractAttendees(people).attendees) :
       LET a == extractAttendees(people).attendees[k]
       IN /\ MatchesOrganizer(a)
          /\ a.email # orgEmail
          /\ a.name # Str(SplitAt0(orgEmail.s))
          /\ result.organizer.name = a.name

\* C7: the attendees of extractParticipants are the attendees of
\* extractAttendees(doc.people), in order, without those whose email equals
\* the organizer's case-insensitively.
C7_OrganizerRemovedByEmailOnly ==
  Returned("extractParticipants") =>
    result.attendees =
      SelectSeq(extractAttendees(people).attendees,
                LAMBDA a : ~(result.hasOrganizer /\ MatchesOrganizer(a)))

\* C7's case: the attendee with the organizer's email was removed, and an
\* attendee without email stays.
C7_Witness ==
  /\ Returned("extractParticipants")
  /\ result.hasOrganizer
  /\ Len(result.attendees) < Len(extractAttendees(people).attendees)
  /\ \E k \in 1..Len(result.attendees) : ~Truthy(result.attendees[k].email)

\* C8: expansion is additive: the organizer and the attendees returned with
\* expandGroups set are those returned without it, so no member of a group
\* enters attendees through the expansion.
C8_ExpansionAdditive ==
  (Returned("extractParticipants") /\ result.expand) =>
    LET plain == extractParticipants(people, orgEmail, FALSE)
    IN /\ ~plain.threw
       /\ result.hasOrganizer = plain.hasOrganizer
       /\ result.organizer = plain.organizer
       /\ result.attendees = plain.attendees
       /\ ~plain.hasExpanded

\* C8's case: the expansion produced a pair with members, none of which the
\* attendees list holds.
C8_Witness ==
  /\ Returned("extractParticipants") /\ result.expand
  /\ \E k \in 1..Len(result.expandedGroups) :
       LET ms == result.expandedGroups[k].members
       IN /\ ms # <<>>
          /\ \A i \in 1..Len(ms) : \A j \in 1..Len(result.attendees) :
               result.attendees[j] # ms[i]

\* C9: memberCount is the length of the raw members array, for the groups of
\* the attendees list and of expandedGroups alike, whatever the length of
\* the deduplicated members list; an attendee has a memberCount exactly when
\* it is a group.
C9_MemberCountIsRawLength ==
  (pc = "done" /\ ~result.threw) =>
    /\ \A k \in 1..Len(result.attendees) :
         LET o == result.attendees[k]
         IN /\ o.hasMemberCount = o.isGroup
            /\ o.isGroup =>
                 o.memberCount
                   = Len(SourceOf(people, SpecKey(o)).members.items)
    /\ ~result.organizer.hasMemberCount /\ ~result.organizer.isGroup
    /\ result.hasExpanded =>
         /\ Len(result.expandedGroups) = Len(ArrayItems(people))
         /\ \A k \in 1..Len(result.expandedGroups) :
              LET g == result.expandedGroups[k]
              IN /\ g.group.isGroup /\ g.group.hasMemberCount
                 /\ g.group.memberCount
                      = Len(ArrayItems(people)[k].members.items)
                 /\ \A i \in 1..Len(g.members) :
                      ~g.members[i].isGroup /\ ~g.members[i].hasMemberCount

\* C9's case: a group of expandedGroups, also in the attendees list, whose
\* memberCount is larger than its members list is long.
C9_Witness ==
  /\ Returned("extractParticipants") /\ result.expand
  /\ \E k \in 1..Len(result.expandedGroups) :
       LET g == result.expandedGroups[k]
       IN /\ g.group.memberCount > Len(g.members)
          /\ g.members # <<>>
          /\ \E j \in 1..Len(result.attendees) : result.attendees[j] = g.group

\* The key of a raw member as the spec words it: the lowercase email if there
\* is one, else the lowercase name (its name, else its fullName).
RawMemberKey(m) ==
  IF Truthy(m.email) THEN LowerStr(m.email.s)
  ELSE LowerStr(Or(m.name, Or(m.fullName, Str(<<>>))).s)

\* The raw members that have a key: objects with a name or an email.
KeyedMembers(e) ==
  SelectSeq(e.members.items, LAMBDA m : m.isObj /\ RawMemberKey(m) # <<>>)

\* C10: the members of each pair are the raw members of that group that are
\* the first of the group with their key, in raw order: keys seen in the
\* attendees list or in another group remove nothing.
C10_MembersDedupedPerGroup ==
  (Returned("extractParticipants") /\ result.expand) =>
    /\ Len(result.expandedGroups) = Len(ArrayItems(people))
    /\ \A k \in 1..Len(result.expandedGroups) :
         LET ms == result.expandedGroups[k].members
             raw == KeyedMembers(ArrayItems(people)[k])
             F == {i \in 1..Len(raw) :
                     \A j \in 1..(i - 1) :
                       RawMemberKey(raw[j]) # RawMemberKey(raw[i])}
         IN /\ Len(ms) = Cardinality(F)
            /\ \A i, j \in 1..Len(ms) :
                 i # j => SpecKey(ms[i]) # SpecKey(ms[j])
            /\ \A i \in 1..Len(ms) :
                 /\ SpecKey(ms[i]) = RawMemberKey(raw[Nth(F, i)])
                 /\ ms[i].email = raw[Nth(F, i)].email

\* C10's case: a pair keeps two members with different keys, one with a key
\* that the attendees list holds too, and another pair holds that key again.
C10_Witness ==
  /\ Returned("extractParticipants") /\ result.expand
  /\ \E k, l \in 1..Len(result.expandedGroups) :
       LET ms == result.expandedGroups[k].members
       IN /\ k # l
          /\ Len(ms) >= 2
          /\ \E i \in 1..Len(ms) :
               /\ \E j \in 1..Len(result.attendees) :
                    SpecKey(result.attendees[j]) = SpecKey(ms[i])
               /\ \E j \in 1..Len(result.expandedGroups[l].members) :
                    SpecKey(result.expandedGroups[l].members[j])
                      = SpecKey(ms[i])

\* The positions of the keyed raw members that are the first with their key.
FirstMembers(raw) ==
  {i \in 1..Len(raw) :
     \A j \in 1..(i - 1) : RawMemberKey(raw[j]) # RawMemberKey(raw[i])}

\* C11: the name of a member of expandedGroups is the name the same raw entry
\* gets as a top-level individual: name, else fullName, else the part of the
\* email before "@", else "(unknown)".
C11_MemberNamedAsIndividual ==
  (Returned("extractParticipants") /\ result.expand) =>
    \A k \in 1..Len(result.expandedGroups) :
      LET ms == result.expandedGroups[k].members
          raw == KeyedMembers(ArrayItems(people)[k])
      IN \A i \in 1..Len(ms) :
           ms[i].name = individualName(raw[Nth(FirstMembers(raw), i)])

\* C12: expandedGroups holds one pair per attendees-array entry whose members
\* is an array, in raw order, with that entry's name (else email, else
\* "(group)") and email; the creator contributes none, and an entry yields
\* its pair whether or not the attendees list retains it.
C12_PairPerRawGroupEntry ==
  (Returned("extractParticipants") /\ result.expand) =>
    /\ Len(result.expandedGroups) = Len(ArrayItems(people))
    /\ \A k \in 1..Len(result.expandedGroups) :
         LET g == result.expandedGroups[k].group
             e == ArrayItems(people)[k]
         IN /\ g.email = e.email
            /\ g.name = Or(e.name, Or(e.email, GroupLit))
            /\ g.isGroup

\* C12's case: the creator is a group, and a group entry of the attendees
\* array that the attendees list does not hold (a duplicate key, or the
\* organizer) has its pair.
C12_Witness ==
  /\ Returned("extractParticipants") /\ result.expand
  /\ people.t = "obj" /\ people.creator.t = "obj"
  /\ people.creator.e.members.t = "arr"
  /\ Len(result.expandedGroups) = Len(people.attendees.items)
  /\ \E k \in 1..Len(result.expandedGroups) :
       \A j \in 1..Len(result.attendees) :
         result.attendees[j] # result.expandedGroups[k].group

\* C13: expandedGroups is absent exactly when expandGroups is not requested;
\* when requested it is a sequence, empty exactly when the document has no
\* people record, no attendees array, or no entry whose members is an array.
C13_ExpandedGroupsPresence ==
  Returned("extractParticipants") =>
    /\ result.hasExpanded = result.expand
    /\ ~result.expand => result.expandedGroups = <<>>
    /\ result.expand =>
         (result.expandedGroups = <<>> <=> ArrayItems(people) = <<>>)

\* C13's case: expansion requested on a document without a people record.
C13_Witness ==
  /\ Returned("extractParticipants") /\ result.expand
  /\ people.t = "undef"
  /\ result.hasExpanded /\ result.expandedGroups = <<>>

NonEmptyName(a) == a.name.t = "str" /\ a.name.s # <<>>

\* C14: every attendee of the result of extractParticipants (the organizer,
\* the attendees, each group and each member) has a non-empty name.
C14_NamesNeverEmpty ==
  Returned("extractParticipants") =>
    /\ result.hasOrganizer => NonEmptyName(result.organizer)
    /\ \A k \in 1..Len(result.attendees) : NonEmptyName(result.attendees[k])
    /\ \A k \in 1..Len(result.expandedGroups) :
         /\ NonEmptyName(result.expandedGroups[k].group)
         /\ \A i \in 1..Len(result.expandedGroups[k].members) :
              NonEmptyName(result.expandedGroups[k].members[i])

\* ================================================== the document store
\* The local store accessors: the cache part of src/src/lib/output.ts.

\* ------------------------------------------------------------ bounds

\* Longest documents map of a cache file of the document inputs.
MaxDocs == 2

\* Greatest modification time the cache file takes.
MaxMTime == 2

\* ------------------------------------------------------------ strings

\* haystack.includes(needle)
Includes(hay, needle) ==
  \E i \in 0..Len(hay) :
    /\ i + Len(needle) <= Len(hay)
    /\ SubSeq(hay, i + 1, i + Len(needle)) = needle

\* A character WORD_SPLIT_REGEX (/\s+/) matches; the model's strings hold
\* no other white space than the space.
IsSpace(c) == c = " "

\* chars.split(WORD_SPLIT_REGEX): the pieces between runs of white space,
\* from position i on, with cur the piece being read.  A leading or a
\* trailing run gives an empty piece, and so does the empty string.
RECURSIVE splitFrom(_, _, _)
splitFrom(chars, i, cur) ==
  IF i > Len(chars) THEN <<cur>>
  ELSE IF IsSpace(chars[i])
    THEN IF i > 1 /\ IsSpace(chars[i - 1])
           THEN splitFrom(chars, i + 1, cur)
           ELSE <<cur>> \o splitFrom(chars, i + 1, <<>>)
  ELSE splitFrom(chars, i + 1, Append(cur, chars[i]))

splitWords(chars) == splitFrom(chars, 1, <<>>)

\* pieces.join(' ')
RECURSIVE joinSpace(_)
joinSpace(pieces) ==
  IF pieces = <<>> THEN <<>>
  ELSE IF Len(pieces) = 1 THEN pieces[1]
  ELSE pieces[1] \o <<" ">> \o joinSpace(Tail(pieces))

\* (v || '').toLowerCase() for a string or absent v.
lowerOrEmpty(v) == IF Truthy(v) THEN LowerStr(v.s) ELSE <<>>

\* ---------------------------------------------------------- documents

\* doc.people as an array of persons.
PeopleArray(items) ==
  [t |-> "arr", creator |-> NoCreator, attendees |-> AttendeesArr(items)]

\* A calendar attendee {displayName, email}.
CalAttendee(displayName, email) == [displayName |-> displayName, email |-> email]

\* A document.  updated_at is the time new Date(updated_at || 0).getTime()
\* gives: 0 when the field is absent; dates that do not parse are left out.
Doc(id, title, updated_at, type, was_trashed) ==
  [id |-> id, title |-> title, updated_at |-> updated_at, type |-> type,
   was_trashed |-> was_trashed, notes_plain |-> Undef, people |-> NoPeople,
   calAttendees |-> <<>>]

\* The value a lookup without a match gives (undefined).
NoDoc == Doc(<<>>, Undef, 0, Undef, Undef)

\* A folder: its documentListsMetadata entry with its documentLists entry.
Folder(id, title, deleted, list) ==
  [id |-> id, title |-> title, deleted |-> deleted, list |-> list]

\* cache.state: the documents, folders and shared documents maps in key
\* order.
State(documents, folders, shared) ==
  [t |-> "state", documents |-> documents, folders |-> folders,
   shared |-> shared]

\* cache.state is absent.
UndefState == [NullState EXCEPT !.t = "undef"]

\* cachedState && ...
HasState(s) == s.t = "state"

\* The cache file's content: text that parses to a cache with a state, to
\* one without, or text on which JSON.parse raises.
OkContent(state) == [kind |-> "ok", state |-> state]
NoStateContent == [kind |-> "ok", state |-> UndefState]
CorruptContent == [kind |-> "corrupt", state |-> NullState]

\* A file readFileSync cannot read, and text whose outer JSON parses while
\* its 'cache' string is missing or does not parse.
UnreadableContent == [kind |-> "unreadable", state |-> NullState]
BadInnerContent == [kind |-> "inner", state |-> NullState]

\* The error the read and the two parses raise on a content, "" when they
\* succeed.
readError(content) ==
  CASE content.kind = "unreadable" -> "read"
    [] content.kind \in {"corrupt", "inner"} -> "parse"
    [] OTHER -> ""

\* ----------------------------------------------------------- loadCache

Platforms == {"darwin", "linux", "win32", "freebsd"}

\* CACHE_PATHS[platform] || CACHE_PATHS.darwin
getCachePath(plat) ==
  CASE plat = "linux" -> "~/.config/Granola/cache-v3.json"
    [] plat = "win32" -> "~/AppData/Roaming/Granola/cache-v3.json"
    [] OTHER -> "~/Library/Application Support/Granola/cache-v3.json"

\* What a call of loadCache gives: the error it raises or the state it
\* returns, whether it read the file, and the module-level variables after
\* it.
Loaded(threw, err, path, read, value, cs, cmt) ==
  [threw |-> threw, err |-> err, path |-> path, read |-> read,
   value |-> value, cachedState |-> cs, cacheModTime |-> cmt]

\* loadCache with the cache hit tested before the file is looked for.
loadCacheHitFirst(plat, f, cs, cmt) ==
  IF HasState(cs) /\ (~f.exists \/ f.mtime = cmt)
    THEN Loaded(FALSE, "", "", FALSE, cs, cs, cmt)
  ELSE IF ~f.exists
    THEN Loaded(TRUE, "not found", getCachePath(plat), FALSE, NullState,
                cs, cmt)
  ELSE IF readError(f.content) # ""
    THEN Loaded(TRUE, readError(f.content), "", TRUE, NullState, cs, cmt)
  ELSE Loaded(FALSE, "", "", TRUE, f.content.state, f.content.state, f.mtime)

\* loadCache that keeps the time recorded at the first load.
loadCacheStaleTime(plat, f, cs, cmt) ==
  IF ~f.exists
    THEN Loaded(TRUE, "not found", getCachePath(plat), FALSE, NullState,
                cs, cmt)
  ELSE IF HasState(cs) /\ f.mtime = cmt
    THEN Loaded(FALSE, "", "", FALSE, cs, cs, cmt)
  ELSE IF readError(f.content) # ""
    THEN Loaded(TRUE, readError(f.content), "", TRUE, NullState, cs, cmt)
  ELSE Loaded(FALSE, "", "", TRUE, f.content.state, f.content.state,
              IF HasState(cs) THEN cmt ELSE f.mtime)

\* loadCache that records the new time and keeps the state it holds.
loadCacheKeepsState(plat, f, cs, cmt) ==
  IF ~f.exists
    THEN Loaded(TRUE, "not found", getCachePath(plat), FALSE, NullState,
                cs, cmt)
  ELSE IF HasState(cs) /\ f.mtime = cmt
    THEN Loaded(FALSE, "", "", FALSE, cs, cs, cmt)
  ELSE IF readError(f.content) # ""
    THEN Loaded(TRUE, readError(f.content), "", TRUE, NullState, cs, cmt)
  ELSE Loaded(FALSE, "", "", TRUE,
              IF HasState(cs) THEN cs ELSE f.content.state,
              IF HasState(cs) THEN cs ELSE f.content.state, f.mtime)

\* loadCache that records the modification time before it reads.
loadCacheTimeFirst(plat, f, cs, cmt) ==
  IF ~f.exists
    THEN Loaded(TRUE, "not found", getCachePath(plat), FALSE, NullState,
                cs, cmt)
  ELSE IF HasState(cs) /\ f.mtime = cmt
    THEN Loaded(FALSE, "", "", FALSE, cs, cs, cmt)
  ELSE IF readError(f.content) # ""
    THEN Loaded(TRUE, readError(f.content), "", TRUE, NullState, cs, f.mtime)
  ELSE Loaded(FALSE, "", "", TRUE, f.content.state, f.content.state, f.mtime)

\* loadCache(): the existence test, the hit on an equal modification time,
\* else the read and the two parses, which raise before anything is
\* assigned.
loadCache(plat, f, cs, cmt) ==
  IF ~f.exists
    THEN Loaded(TRUE, "not found", getCachePath(plat), FALSE, NullState,
                cs, cmt)
  ELSE IF HasState(cs) /\ f.mtime = cmt
    THEN Loaded(FALSE, "", "", FALSE, cs, cs, cmt)
  ELSE IF readError(f.content) # ""
    THEN Loaded(TRUE, readError(f.content), "", TRUE, NullState, cs, cmt)
  ELSE Loaded(FALSE, "", "", TRUE, f.content.state, f.content.state, f.mtime)

\* What a call of a store accessor leaves in result.
StoreResult(op, query, l) ==
  [op |-> op, query |-> query, threw |-> l.threw,
   err |-> l.err, path |-> l.path, read |-> l.read, state |-> l.value,
   found |-> FALSE, doc |-> NoDoc, docs |-> <<>>, folders |-> <<>>]

\* ----------------------------------------------------------- accessors

\* d put into a sequence sorted by updated_at descending, behind the
\* documents that are not older.
RECURSIVE insertByRecency(_, _)
insertByRecency(sorted, d) ==
  IF sorted = <<>> THEN <<d>>
  ELSE IF Head(sorted).updated_at >= d.updated_at
    THEN <<Head(sorted)>> \o insertByRecency(Tail(sorted), d)
  ELSE <<d>> \o sorted

\* docs.sort((a, b) => new Date(b.updated_at || 0).getTime() -
\*                     new Date(a.updated_at || 0).getTime()):
\* most recent first; the sort is stable, equal times keep their order.
RECURSIVE sortByRecency(_)
sortByRecency(docs) ==
  IF docs = <<>> THEN <<>>
  ELSE insertByRecency(sortByRecency(SubSeq(docs, 1, Len(docs) - 1)),
                       docs[Len(docs)])

\* The state when the sort acts on the state's own array of documents.
stateAfterSortInPlace(state, sorted) == [state EXCEPT !.documents = sorted]

\* The state after an accessor sorted its result: the sort acts on the array
\* that Object.values(...).filter(...) built, the state keeps its maps.
stateAfterSort(state, sorted) == state

\* getDocuments(state): Object.values(cache.documents || {})
getDocuments(state) == state.documents

MeetingType == Str(<<"m", "e", "e", "t", "i", "n", "g">>)

\* getMeetings that keeps the trashed meetings.
getMeetingsWithTrashed(state) ==
  SelectSeq(getDocuments(state), LAMBDA d : d.type = MeetingType)

\* d.type === 'meeting' && !d.was_trashed
isMeeting(d) == d.type = MeetingType /\ ~Truthy(d.was_trashed)

\* getMeetings(state)
getMeetings(state) == SelectSeq(getDocuments(state), isMeeting)

\* docs.find((d) => d.id === idOrQuery): the position, 0 when there is none.
findById(docs, id) ==
  IF \E i \in 1..Len(docs) : docs[i].id = id
    THEN CHOOSE i \in 1..Len(docs) :
           docs[i].id = id /\ \A j \in 1..(i - 1) : docs[j].id # id
    ELSE 0

\* words: q.split(WORD_SPLIT_REGEX).filter((w) => w.length > 2)
queryWords(query) ==
  SelectSeq(splitWords(LowerStr(query)), LAMBDA w : Len(w) > 2)

\* words.every((w) => title.includes(w))
titleHasWords(d, words) ==
  \A k \in 1..Len(words) : Includes(lowerOrEmpty(d.title), words[k])

\* The title matches of findDocument, most recent first.
findCandidates(query, state) ==
  sortByRecency(SelectSeq(getDocuments(state),
                          LAMBDA d : titleHasWords(d, queryWords(query))))

\* findDocument whose title match comes before the id.
findDocumentTitleFirst(query, state) ==
  LET c == findCandidates(query, state)
      docs == getDocuments(state)
      i == findById(docs, query)
  IN IF c # <<>> THEN [found |-> TRUE, doc |-> c[1]]
     ELSE IF i # 0 THEN [found |-> TRUE, doc |-> docs[i]]
     ELSE [found |-> FALSE, doc |-> NoDoc]

\* findDocument that takes the first title match in store order.
findDocumentFirstMatch(query, state) ==
  LET docs == getDocuments(state)
      i == findById(docs, query)
      c == SelectSeq(docs, LAMBDA d : titleHasWords(d, queryWords(query)))
  IN IF i # 0 THEN [found |-> TRUE, doc |-> docs[i]]
     ELSE IF c # <<>> THEN [found |-> TRUE, doc |-> c[1]]
     ELSE [found |-> FALSE, doc |-> NoDoc]

\* findDocument that finds nothing for a query without a word to match.
findDocumentNeedsWords(query, state) ==
  LET docs == getDocuments(state)
      i == findById(docs, query)
      c == findCandidates(query, state)
  IN IF i # 0 THEN [found |-> TRUE, doc |-> docs[i]]
     ELSE IF c # <<>> /\ queryWords(query) # <<>>
       THEN [found |-> TRUE, doc |-> c[1]]
     ELSE [found |-> FALSE, doc |-> NoDoc]

\* findDocument(idOrQuery, state)
findDocument(query, state) ==
  LET docs == getDocuments(state)
      i == findById(docs, query)
      c == findCandidates(query, state)
  IN IF i # 0 THEN [found |-> TRUE, doc |-> docs[i]]
     ELSE IF c # <<>> THEN [found |-> TRUE, doc |-> c[1]]
     ELSE [found |-> FALSE, doc |-> NoDoc]

\* A person as the filters read it: (p?.name || '').toLowerCase() and
\* (p?.email || '').toLowerCase().
Surface(name, email) == [name |-> lowerOrEmpty(name), email |-> lowerOrEmpty(email)]

\* getPeopleArray(people), read through Surface: nothing for an absent
\* people, the elements of an array, else Object.values(people), which holds
\* the creator and the attendees array itself; an array has no name and no
\* email.
getPeopleArray(p) ==
  CASE p.t = "arr" ->
         [i \in 1..Len(p.attendees.items) |->
            Surface(p.attendees.items[i].name, p.attendees.items[i].email)]
    [] p.t = "obj" ->
         (IF p.creator.t = "obj"
            THEN <<Surface(p.creator.e.name, p.creator.e.email)>>
            ELSE IF p.creator.t = "prim" THEN <<Surface(Undef, Undef)>>
            ELSE <<>>)
         \o (IF p.attendees.t = "undef" THEN <<>>
             ELSE <<Surface(Undef, Undef)>>)
    [] OTHER -> <<>>

\* The filter of searchDocuments without the notes.
searchMatchesNoNotes(d, q) ==
  LET arr == getPeopleArray(d.people)
      names == joinSpace([i \in 1..Len(arr) |-> arr[i].name])
  IN \/ Includes(lowerOrEmpty(d.title), q)
     \/ Includes(names, q)

\* The filter of searchDocuments.
searchMatches(d, q) ==
  LET arr == getPeopleArray(d.people)
      names == joinSpace([i \in 1..Len(arr) |-> arr[i].name])
  IN \/ Includes(lowerOrEmpty(d.title), q)
     \/ Includes(lowerOrEmpty(d.notes_plain), q)
     \/ Includes(names, q)

\* searchDocuments(query, state)
searchDocuments(query, state) ==
  sortByRecency(SelectSeq(getMeetings(state),
                          LAMBDA d : searchMatches(d, LowerStr(query))))

\* v?.toString().toLowerCase().includes(q) for a string or absent v.
optIncludes(v, q) == Truthy(v) /\ Includes(LowerStr(v.s), q)

\* The nested surfaces of getDocumentsByPerson: people.creator and the
\* elements of people.attendees.
nestedMatches(p, q) ==
  /\ p.t = "obj"
  /\ \/ /\ p.creator.t = "obj"
        /\ \/ optIncludes(p.creator.e.name, q)
           \/ optIncludes(p.creator.e.email, q)
     \/ /\ p.attendees.t = "arr"
        /\ \E i \in 1..Len(p.attendees.items) :
             \/ optIncludes(p.attendees.items[i].name, q)
             \/ optIncludes(p.attendees.items[i].email, q)

\* The filter of getDocumentsByPerson without the calendar attendees.
personMatchesNoCalendar(d, q) ==
  LET arr == getPeopleArray(d.people)
  IN \/ Includes(lowerOrEmpty(d.title), q)
     \/ \E i \in 1..Len(arr) :
          Includes(arr[i].name, q) \/ Includes(arr[i].email, q)
     \/ nestedMatches(d.people, q)

\* The filter of getDocumentsByPerson.
personMatches(d, q) ==
  LET arr == getPeopleArray(d.people)
  IN \/ Includes(lowerOrEmpty(d.title), q)
     \/ \E i \in 1..Len(arr) :
          Includes(arr[i].name, q) \/ Includes(arr[i].email, q)
     \/ \E i \in 1..Len(d.calAttendees) :
          \/ Includes(lowerOrEmpty(d.calAttendees[i].displayName), q)
          \/ Includes(lowerOrEmpty(d.calAttendees[i].email), q)
     \/ nestedMatches(d.people, q)

\* getDocumentsByPerson(personNameOrEmail, state)
getDocumentsByPerson(query, state) ==
  sortByRecency(SelectSeq(getMeetings(state),
                          LAMBDA d : personMatches(d, LowerStr(query))))

\* The place of a character in the collation of localeCompare, for the
\* characters folder titles of the model begin with: punctuation sorts
\* before letters.
CharRank(c) ==
  CASE c = "(" -> 0
    [] c = "a" -> 1
    [] c = "b" -> 2
    [] OTHER -> 3

\* a.localeCompare(b) < 0
RECURSIVE localeLess(_, _)
localeLess(a, b) ==
  IF b = <<>> THEN FALSE
  ELSE IF a = <<>> THEN TRUE
  ELSE IF Head(a) = Head(b) THEN localeLess(Tail(a), Tail(b))
  ELSE CharRank(Head(a)) < CharRank(Head(b))

\* f put into a sequence sorted by title, behind the folders whose title is
\* not greater.
RECURSIVE insertByTitle(_, _)
insertByTitle(sorted, f) ==
  IF sorted = <<>> THEN <<f>>
  ELSE IF localeLess(f.title, Head(sorted).title) THEN <<f>> \o sorted
  ELSE <<Head(sorted)>> \o insertByTitle(Tail(sorted), f)

RECURSIVE sortByTitle(_)
sortByTitle(fs) ==
  IF fs = <<>> THEN <<>>
  ELSE insertByTitle(sortByTitle(SubSeq(fs, 1, Len(fs) - 1)), fs[Len(fs)])

UntitledLit == <<"(", "u", "n", "t", "i", "t", "l", "e", "d", ")">>

\* getFolders(state): the folders that are not deleted as {id, title,
\* noteCount}, sorted by title (visibility and isShared are left out).
getFolders(state) ==
  LET live == SelectSeq(state.folders, LAMBDA f : ~f.deleted)
  IN sortByTitle([i \in 1..Len(live) |->
       [id |-> live[i].id,
        title |-> IF Truthy(live[i].title) THEN live[i].title.s
                  ELSE UntitledLit,
        noteCount |-> Len(live[i].list)]])

\* lists[id] || []
listOf(state, id) ==
  IF \E i \in 1..Len(state.folders) : state.folders[i].id = id
    THEN state.folders[CHOOSE i \in 1..Len(state.folders) :
                         state.folders[i].id = id].list
    ELSE <<>>

\* getDocumentsByFolder(folderIdOrName, state)
getDocumentsByFolder(query, state) ==
  LET folders == getFolders(state)
      hit(f) == f.id = query \/ Includes(LowerStr(f.title), LowerStr(query))
      found == SelectSeq(folders, hit)
  IN IF found = <<>> THEN <<>>
     ELSE LET ids == listOf(state, found[1].id)
          IN sortByRecency(SelectSeq(getDocuments(state),
               LAMBDA d : \E i \in 1..Len(ids) : ids[i] = d.id))

\* getSharedDocuments(state): the shared documents with an id.
getSharedDocuments(state) ==
  sortByRecency(SelectSeq(state.shared, LAMBDA d : d.id # <<>>))

\* ------------------------------------------------------------ inputs

\* Titles: the spec's 'Weekly Sync' and 'Weekly Standup' as 'AAA BBB' and
\* 'AAA XXX'.
tSync == <<"A", "A", "A", " ", "B", "B", "B">>
tStandup == <<"A", "A", "A", " ", "X", "X", "X">>

\* Queries: a document id that is a word of other titles, two ids, the two
\* titles in other case, a word of two letters, the empty string, an email,
\* a query no document answers and a person's name.
qId == <<"a", "a", "a">>
qD2 == <<"d", "2">>
qD5 == <<"d", "5">>
qSync == <<"a", "a", "a", " ", "b", "b", "b">>
qStandup == <<"A", "A", "A", " ", "X", "X", "X">>
qShort == <<"b", "b">>
qNone == <<"g", "g", "g">>
Queries == {qId, qD2, qD5, qSync, qStandup, qShort, <<>>, eax, qNone, sG}

NoteType == Str(<<"n", "o", "t", "e">>)

dUntitled == Doc(qId, Undef, 1, MeetingType, Undef)
dSync == Doc(qD2, Str(tSync), 2, MeetingType, Bool(FALSE))
dStandup == Doc(<<"d", "3">>, Str(tStandup), 3, MeetingType, Undef)
dNote ==
  [Doc(<<"d", "4">>, Str(tSync), 2, NoteType, Undef)
     EXCEPT !.calAttendees = <<CalAttendee(Str(sA), Str(eax))>>]
dTrashed ==
  [Doc(qD5, Str(tSync), 3, MeetingType, Bool(TRUE))
     EXCEPT !.people = PeopleArray(<<Individual(Str(sA), Str(eax))>>)]
dBare ==
  [Doc(<<"d", "6">>, Str(<<>>), 0, Undef, Undef)
     EXCEPT !.people = PeopleObj(CreatorEntry(Individual(Str(sA), Str(eax))),
                                 NoAttendees)]

\* Documents: one without a title whose id is a word of the others' titles,
\* the two titles of the spec's scenario, a note and a trashed meeting with
\* the first title, a document without type and date.
DocPool == {dUntitled, dSync, dStandup, dNote, dTrashed, dBare}

\* Folders: out of title order, one deleted, one without a title.
DocFolders ==
  <<Folder(<<"f", "2">>, Str(<<"b">>), FALSE, <<qD2, <<"d", "3">>>>),
    Folder(<<"f", "1">>, Str(<<"a">>), FALSE, <<qId>>),
    Folder(<<"f", "3">>, Undef, FALSE, <<>>),
    Folder(<<"f", "4">>, Str(<<"a">>), TRUE, <<qId>>)>>

\* The states whose documents are over DocPool.
DocStates ==
  {State(docs, DocFolders, docs) : docs \in SeqsUpTo(DocPool, MaxDocs)}

\* The contents the cache file takes while it is rewritten: two states,
\* the second not in order of recency, a cache without state, and the
\* contents on which the read or a parse raises.
StateOne == State(<<dStandup>>, <<>>, <<>>)
StateTwo == State(<<dSync, dStandup, dUntitled>>, DocFolders, <<dSync, dStandup>>)
CacheContents ==
  {OkContent(StateOne), OkContent(StateTwo), NoStateContent, CorruptContent,
   UnreadableContent, BadInnerContent}

\* -------------------------------------------- store specifications

\* An external program rewrites (or creates) the cache file; the
\* modification time of a rewritten file changes.
WriteFile ==
  /\ \E c \in CacheContents, m \in 0..MaxMTime :
       /\ file.exists => m # file.mtime
       /\ file' = [exists |-> TRUE, mtime |-> m, content |-> c]
  /\ pc' = "idle"
  /\ result' = NoResult
  /\ UNCHANGED <<attVars, clientVars, modTime, platform, cachedState, cacheModTime>>

\* The cache file is removed.
RemoveFile ==
  /\ file.exists
  /\ file' = FileAbsent
  /\ pc' = "idle"
  /\ result' = NoResult
  /\ UNCHANGED <<attVars, clientVars, modTime, platform, cachedState, cacheModTime>>

\* loadCache() as the process and the file stand.
Cache == loadCache(platform, file, cachedState, cacheModTime)

\* The state an accessor called without a state argument works on: const
\* cache = state || loadCache().
CacheValue == Cache.value

\* What an accessor returns: a document or nothing, documents, or folders.
ReturnsDoc(f) ==
  [found |-> f.found, doc |-> f.doc, docs |-> <<>>, folders |-> <<>>]
ReturnsDocs(docs) ==
  [found |-> FALSE, doc |-> NoDoc, docs |-> docs, folders |-> <<>>]
ReturnsFolders(folders) ==
  [found |-> FALSE, doc |-> NoDoc, docs |-> <<>>, folders |-> folders]

\* A call of an accessor without a state argument: loadCache(), then the
\* accessor's body, which returns out and sorts the array sorted; a cache
\* without state makes the accessor raise a TypeError on cache.documents.
Accessor(op, query, out, sorted) ==
  LET l == Cache
      r == StoreResult(op, query, l)
  IN /\ result' = IF l.threw THEN r
                  ELSE IF ~HasState(l.value)
                    THEN [r EXCEPT !.threw = TRUE, !.err = "type"]
                  ELSE [r EXCEPT !.found = out.found, !.doc = out.doc,
                                 !.docs = out.docs, !.folders = out.folders]
     /\ cachedState' = IF ~l.threw /\ HasState(l.value)
                         THEN stateAfterSort(l.cachedState, sorted)
                         ELSE l.cachedState
     /\ cacheModTime' = l.cacheModTime

\* loadCache()
CallLoadCache ==
  /\ result' = StoreResult("loadCache", <<>>, Cache)
  /\ cachedState' = Cache.cachedState
  /\ cacheModTime' = Cache.cacheModTime
  /\ pc' = "done"
  /\ UNCHANGED <<attVars, clientVars, modTime, platform, file>>

\* getDocuments()
CallGetDocuments ==
  /\ Accessor("getDocuments", <<>>, ReturnsDocs(getDocuments(CacheValue)),
              CacheValue.documents)
  /\ pc' = "done"
  /\ UNCHANGED <<attVars, clientVars, modTime, platform, file>>

\* getMeetings()
CallGetMeetings ==
  /\ Accessor("getMeetings", <<>>, ReturnsDocs(getMeetings(CacheValue)),
              CacheValue.documents)
  /\ pc' = "done"
  /\ UNCHANGED <<attVars, clientVars, modTime, platform, file>>

\* findDocument(query); the array sorted is the one of the title matches,
\* when no id matches.
CallFindDocument ==
  /\ \E query \in Queries :
       Accessor("findDocument", query,
                ReturnsDoc(findDocument(query, CacheValue)),
                IF findById(getDocuments(CacheValue), query) # 0
                  THEN CacheValue.documents
                  ELSE findCandidates(query, CacheValue))
  /\ pc' = "done"
  /\ UNCHANGED <<attVars, clientVars, modTime, platform, file>>

\* searchDocuments(query)
CallSearchDocuments ==
  /\ \E query \in Queries :
       Accessor("searchDocuments", query,
                ReturnsDocs(searchDocuments(query, CacheValue)),
                searchDocuments(query, CacheValue))
  /\ pc' = "done"
  /\ UNCHANGED <<attVars, clientVars, modTime, platform, file>>

\* getDocumentsByPerson(query)
CallGetDocumentsByPerson ==
  /\ \E query \in Queries :
       Accessor("getDocumentsByPerson", query,
                ReturnsDocs(getDocumentsByPerson(query, CacheValue)),
                getDocumentsByPerson(query, CacheValue))
  /\ pc' = "done"
  /\ UNCHANGED <<attVars, clientVars, modTime, platform, file>>

\* getFolders(); it sorts the array of folder summaries it built.
CallGetFolders ==
  /\ Accessor("getFolders", <<>>, ReturnsFolders(getFolders(CacheValue)),
              CacheValue.documents)
  /\ pc' = "done"
  /\ UNCHANGED <<attVars, clientVars, modTime, platform, file>>

\* getDocumentsByFolder(query)
CallGetDocumentsByFolder ==
  /\ \E query \in Queries :
       Accessor("getDocumentsByFolder", query,
                ReturnsDocs(getDocumentsByFolder(query, CacheValue)),
                getDocumentsByFolder(query, CacheValue))
  /\ pc' = "done"
  /\ UNCHANGED <<attVars, clientVars, modTime, platform, file>>

\* getSharedDocuments(); it sorts the array built from the shared map.
CallGetSharedDocuments ==
  /\ Accessor("getSharedDocuments", <<>>,
              ReturnsDocs(getSharedDocuments(CacheValue)),
              CacheValue.documents)
  /\ pc' = "done"
  /\ UNCHANGED <<attVars, clientVars, modTime, platform, file>>

NextDocs ==
  \/ CallLoadCache
  \/ CallGetDocuments
  \/ CallGetMeetings
  \/ CallFindDocument
  \/ CallSearchDocuments
  \/ CallGetDocumentsByPerson
  \/ CallGetFolders
  \/ CallGetDocumentsByFolder
  \/ CallGetSharedDocuments

NextCache == WriteFile \/ RemoveFile \/ NextDocs

\* No participant extraction takes place.
NoExtraction ==
  /\ people = NoPeople
  /\ orgEmail = Undef
  /\ pc = "idle"
  /\ result = NoResult

\* The process starts without a cache file; the file comes and goes.
InitCache ==
  /\ NoExtraction
  /\ platform \in Platforms
  /\ file = FileAbsent
  /\ CacheUnloaded
  /\ NoClient

\* A process on Linux starts beside a cache file that holds a state.
InitDocs ==
  /\ NoExtraction
  /\ platform = "linux"
  /\ \E s \in DocStates :
       file = [exists |-> TRUE, mtime |-> 1, content |-> OkContent(s)]
  /\ CacheUnloaded
  /\ NoClient

SpecCache == InitCache /\ [][NextCache]_vars
SpecDocs == InitDocs /\ [][NextDocs]_vars

\* ------------------------------------------------------- store claims

\* A step that is a call of loadCache.
LoadCacheStep == pc' = "done" /\ result'.op = "loadCache"

\* loadCache finds the file with the modification time it recorded for the
\* state it holds.
CacheHit == file.exists /\ HasState(cachedState) /\ file.mtime = cacheModTime

\* C15: a loadCache call that observes the recorded modification time
\* returns the cached state without reading the file and leaves the cache
\* as it is; a call that observes another time, or holds no state, reads
\* the file and, when it returns, returns the state of the file's content
\* and has replaced the cached state and the recorded time with the file's.
C15_ReloadOnModTime ==
  [][LoadCacheStep =>
       /\ CacheHit =>
            /\ ~result'.threw /\ ~result'.read
            /\ result'.state = cachedState
            /\ cachedState' = cachedState /\ cacheModTime' = cacheModTime
       /\ (file.exists /\ ~CacheHit) =>
            /\ result'.read
            /\ ~result'.threw =>
                 /\ result'.state = file.content.state
                 /\ cachedState' = file.content.state
                 /\ cacheModTime' = file.mtime]_vars

\* C15's case: after rewrites of the file, a call has replaced an older
\* state and its time by the file's.
C15_Witness ==
  /\ pc = "done" /\ result.op = "loadCache" /\ ~result.threw /\ result.read
  /\ file.content = OkContent(StateTwo) /\ file.mtime = MaxMTime
  /\ cachedState = StateTwo /\ cacheModTime = MaxMTime

\* C16: a loadCache call that finds no cache file raises the error that
\* names the path of the platform, whatever the cache holds, and leaves the
\* cached state and the recorded time as they are.
C16_MissingFileRaises ==
  [][(LoadCacheStep /\ ~file.exists) =>
       /\ result'.threw /\ result'.err = "not found"
       /\ result'.path = getCachePath(platform)
       /\ cachedState' = cachedState /\ cacheModTime' = cacheModTime]_vars

\* C16's case: the call raises although the cache holds a state.
C16_Witness ==
  /\ pc = "done" /\ result.op = "loadCache"
  /\ ~file.exists /\ result.threw /\ result.err = "not found"
  /\ HasState(cachedState)

AccessorOps ==
  {"loadCache", "getDocuments", "getMeetings", "findDocument",
   "searchDocuments", "getDocumentsByPerson", "getFolders",
   "getDocumentsByFolder", "getSharedDocuments"}

\* C17: a call of a store accessor leaves the file as it is, and the cached
\* state either as it is or, when the call read the file, equal to the
\* state of the file's content: documents, folders and shared documents in
\* the file's order.
C17_AccessorsOnlyRead ==
  [][(pc' = "done" /\ result'.op \in AccessorOps) =>
       /\ file' = file
       /\ \/ cachedState' = cachedState /\ cacheModTime' = cacheModTime
          \/ /\ result'.read
             /\ cachedState' = file.content.state
             /\ cacheModTime' = file.mtime]_vars

\* C17's case: an accessor returned the documents by recency, the cached
\* state holds them in another order.
C17_Witness ==
  /\ Returned("getDocumentsByPerson") /\ result.query = <<>>
  /\ result.docs = <<dStandup, dSync, dUntitled>>
  /\ cachedState = StateTwo

\* The documents of the state the accessors of SpecDocs read.
StoreDocs == file.content.state.documents

\* C18: findDocument called with the id of a document of the store returns
\* a document of the store with that id.
C18_ExactIdWins ==
  Returned("findDocument") =>
    \A i \in 1..Len(StoreDocs) :
      StoreDocs[i].id = result.query =>
        /\ result.found
        /\ result.doc.id = result.query
        /\ \E j \in 1..Len(StoreDocs) : StoreDocs[j] = result.doc

\* C18's case: the id is a word of another, more recent document's title,
\* and the document with the id has no title.
C18_Witness ==
  /\ Returned("findDocument") /\ result.query = qId
  /\ StoreDocs = <<dStandup, dUntitled>>
  /\ result.found /\ result.doc = dUntitled

\* The words of a query: the runs of characters without white space, longer
\* than two characters, of the lowercased query.
WordsOf(query) ==
  LET q == LowerStr(query)
  IN {SubSeq(q, i, j) : <<i, j>> \in
        {p \in (1..Len(q)) \X (1..Len(q)) :
           /\ p[2] - p[1] + 1 > 2
           /\ \A k \in p[1]..p[2] : q[k] # " "
           /\ p[1] = 1 \/ q[p[1] - 1] = " "
           /\ p[2] = Len(q) \/ q[p[2] + 1] = " "}}

\* The positions of the documents whose lowercased title contains every
\* word of the query.
TitleMatches(query) ==
  {i \in 1..Len(StoreDocs) :
     \A w \in WordsOf(query) :
       Includes(IF StoreDocs[i].title.t = "str"
                  THEN LowerStr(StoreDocs[i].title.s) ELSE <<>>, w)}

\* C19: when the query is no document's id, findDocument returns the title
\* match with the greatest updated_at, the first in store order among
\* equals, and nothing when no title matches.
C19_FuzzyTitleMatch ==
  (Returned("findDocument")
     /\ \A i \in 1..Len(StoreDocs) : StoreDocs[i].id # result.query) =>
    LET M == TitleMatches(result.query)
    IN /\ result.found <=> M # {}
       /\ result.found =>
            \E i \in M :
              /\ result.doc = StoreDocs[i]
              /\ \A j \in M :
                   \/ StoreDocs[j].updated_at < StoreDocs[i].updated_at
                   \/ /\ StoreDocs[j].updated_at = StoreDocs[i].updated_at
                      /\ j >= i

\* C19's case: the spec's two titles, the query with both words of the
\* older one.
C19_Witness ==
  /\ Returned("findDocument") /\ result.query = qSync
  /\ StoreDocs = <<dStandup, dSync>>
  /\ result.found /\ result.doc = dSync

\* A meeting that is not trashed.
IsLiveMeeting(d) ==
  d.type = MeetingType /\ d.was_trashed \in {Undef, Null, Bool(FALSE)}

\* C20: getMeetings returns the untrashed meetings of the store, in store
\* order, and searchDocuments and getDocumentsByPerson return untrashed
\* meetings of the store only.
C20_OnlyLiveMeetings ==
  /\ Returned("getMeetings") =>
       result.docs = SelectSeq(StoreDocs, IsLiveMeeting)
  /\ (Returned("searchDocuments") \/ Returned("getDocumentsByPerson")) =>
       \A k \in 1..Len(result.docs) :
         /\ IsLiveMeeting(result.docs[k])
         /\ \E j \in 1..Len(StoreDocs) : StoreDocs[j] = result.docs[k]

\* C20's case: the query is the email of a person of a trashed meeting and
\* of a calendar attendee of a note; neither is returned.
C20_Witness ==
  /\ Returned("getDocumentsByPerson") /\ result.query = eax
  /\ StoreDocs = <<dTrashed, dNote>>
  /\ result.docs = <<>>

\* ================================================ search by attendee
\* searchDocuments and getDocumentsByPerson over meetings with people.

mG == Individual(Str(sG), Str(egx))
mA == Individual(Str(sA), Str(eax))

\* Meetings that name G: as the creator of the people record, as a nested
\* attendee beside the creator A, in a people array, in the notes, and as a
\* calendar attendee; and a trashed meeting with the people array.
mCreator ==
  [Doc(<<"m", "1">>, Str(tStandup), 1, MeetingType, Undef)
     EXCEPT !.people = PeopleObj(CreatorEntry(mG), NoAttendees)]
mNested ==
  [Doc(<<"m", "2">>, Str(tSync), 2, MeetingType, Undef)
     EXCEPT !.people = PeopleObj(CreatorEntry(mA), AttendeesArr(<<mG>>))]
mArray ==
  [Doc(<<"m", "3">>, Undef, 2, MeetingType, Bool(FALSE))
     EXCEPT !.people = PeopleArray(<<mA, mG>>)]
mNotes ==
  [Doc(<<"m", "4">>, Str(tSync), 0, MeetingType, Undef)
     EXCEPT !.notes_plain = Str(<<"A", " ", "G">>)]
mCal ==
  [Doc(<<"m", "5">>, Str(tStandup), 3, MeetingType, Undef)
     EXCEPT !.calAttendees = <<CalAttendee(Str(sG), Str(egx))>>]
mTrashed ==
  [Doc(<<"m", "6">>, Str(tSync), 3, MeetingType, Bool(TRUE))
     EXCEPT !.people = PeopleArray(<<mA, mG>>)]

SearchPool == {mCreator, mNested, mArray, mNotes, mCal, mTrashed}

SearchStates ==
  {State(docs, <<>>, <<>>) : docs \in SeqsUpTo(SearchPool, MaxDocs)}

\* A process on Linux starts beside a cache file of meetings with people.
InitSearch ==
  /\ NoExtraction
  /\ platform = "linux"
  /\ \E s \in SearchStates :
       file = [exists |-> TRUE, mtime |-> 1, content |-> OkContent(s)]
  /\ CacheUnloaded
  /\ NoClient

SpecSearch == InitSearch /\ [][NextDocs]_vars

\* ------------------------------------------------------ search claims

\* s as a lowercased string, the empty string when it is absent.
LowerOf(v) == IF v.t = "str" THEN LowerStr(v.s) ELSE <<>>

\* The persons of a people record: the elements of an array, or the creator
\* and the elements of the nested attendees array.
PersonsOf(p) ==
  CASE p.t = "arr" -> {p.attendees.items[i] : i \in 1..Len(p.attendees.items)}
    [] p.t = "obj" ->
         (IF p.creator.t = "obj" THEN {p.creator.e} ELSE {})
         \cup (IF p.attendees.t = "arr"
                 THEN {p.attendees.items[i] : i \in 1..Len(p.attendees.items)}
                 ELSE {})
    [] OTHER -> {}

\* C21: searchDocuments returns every untrashed meeting with a person, the
\* creator or a nested attendee, whose name contains the query in any case.
C21_SearchFindsAttendee ==
  Returned("searchDocuments") =>
    \A i \in 1..Len(StoreDocs) :
      (/\ IsLiveMeeting(StoreDocs[i])
       /\ \E e \in PersonsOf(StoreDocs[i].people) :
            e.name.t = "str"
              /\ Includes(LowerStr(e.name.s), LowerStr(result.query))) =>
        \E k \in 1..Len(result.docs) : result.docs[k] = StoreDocs[i]

\* The names of the normalized people array: of the elements of an array, or
\* of the values of the record, the creator and the attendees array, which
\* has no name.
NormalNames(p) ==
  CASE p.t = "arr" ->
         [i \in 1..Len(p.attendees.items) |-> LowerOf(p.attendees.items[i].name)]
    [] p.t = "obj" ->
         (IF p.creator.t = "obj" THEN <<LowerOf(p.creator.e.name)>>
          ELSE IF p.creator.t = "prim" THEN <<<<>>>> ELSE <<>>)
         \o (IF p.attendees.t = "undef" THEN <<>> ELSE <<<<>>>>)
    [] OTHER -> <<>>

\* The names with a space between them.
RECURSIVE Spaced(_)
Spaced(names) ==
  IF Len(names) = 0 THEN <<>>
  ELSE IF Len(names) = 1 THEN names[1]
  ELSE Spaced(SubSeq(names, 1, Len(names) - 1)) \o <<" ">> \o names[Len(names)]

\* The positions of the untrashed meetings searchDocuments is to return for
\* q.
SearchHits(q) ==
  {i \in 1..Len(StoreDocs) :
     /\ IsLiveMeeting(StoreDocs[i])
     /\ \/ Includes(LowerOf(StoreDocs[i].title), LowerStr(q))
        \/ Includes(LowerOf(StoreDocs[i].notes_plain), LowerStr(q))
        \/ Includes(Spaced(NormalNames(StoreDocs[i].people)), LowerStr(q))}

\* The place of position i of H in the order of recency: behind the more
\* recent documents of H and the equally recent ones earlier in the store.
RecencyRank(H, i) ==
  1 + Cardinality({j \in H :
        \/ StoreDocs[j].updated_at > StoreDocs[i].updated_at
        \/ StoreDocs[j].updated_at = StoreDocs[i].updated_at /\ j < i})

\* C22: searchDocuments returns exactly the untrashed meetings whose title,
\* notes or space-joined people names contain the lowercased query, most
\* recent first and equally recent ones in store order.
C22_SearchExactAndOrdered ==
  Returned("searchDocuments") =>
    LET H == SearchHits(result.query)
    IN /\ Len(result.docs) = Cardinality(H)
       /\ \A i \in H : result.docs[RecencyRank(H, i)] = StoreDocs[i]

\* C22's case: a match in the notes only and a match of the creator's name,
\* returned in order of recency, not in store order.
C22_Witness ==
  /\ Returned("searchDocuments") /\ result.query = sG
  /\ StoreDocs = <<mNotes, mCreator>>
  /\ result.docs = <<mCreator, mNotes>>

\* The strings getDocumentsByPerson searches in a document: the title, the
\* names and emails of the normalized people array, of the calendar
\* attendees, and those present in the nested creator and attendees.
PersonSurfaces(d) ==
  LET p == d.people
      present(v) == IF v.t = "str" /\ v.s # <<>> THEN {LowerStr(v.s)} ELSE {}
      nested == IF p.t = "obj" THEN PersonsOf(p) ELSE {}
  IN {LowerOf(d.title)}
     \cup {NormalNames(p)[i] : i \in 1..Len(NormalNames(p))}
     \cup (IF p.t = "arr"
             THEN {LowerOf(p.attendees.items[i].email) :
                     i \in 1..Len(p.attendees.items)}
             ELSE IF p.t = "obj" /\ p.creator.t = "obj"
               THEN {LowerOf(p.creator.e.email)} ELSE {})
     \cup UNION {{LowerOf(d.calAttendees[i].displayName),
                  LowerOf(d.calAttendees[i].email)} :
                   i \in 1..Len(d.calAttendees)}
     \cup UNION {present(e.name) \cup present(e.email) : e \in nested}

\* C23: getDocumentsByPerson returns a document of the store if and only if
\* it is an untrashed meeting and one of its surfaces contains the
\* lowercased query.
C23_PersonSurfaces ==
  Returned("getDocumentsByPerson") =>
    /\ \A i \in 1..Len(StoreDocs) :
         (\E k \in 1..Len(result.docs) : result.docs[k] = StoreDocs[i]) <=>
           /\ IsLiveMeeting(StoreDocs[i])
           /\ \E s \in PersonSurfaces(StoreDocs[i]) :
                Includes(s, LowerStr(result.query))
    /\ \A k \in 1..Len(result.docs) :
         \E i \in 1..Len(StoreDocs) : result.docs[k] = StoreDocs[i]

\* C23's case: one meeting matches through a calendar attendee only, one
\* through a nested attendee only, one not at all.
C23_Witness ==
  /\ Returned("getDocumentsByPerson") /\ result.query = sG
  /\ \E other \in {mNotes} :
       \/ StoreDocs = <<mCal, other>> /\ result.docs = <<mCal>>
       \/ StoreDocs = <<other, mNested>> /\ result.docs = <<mNested>>

\* C27: when the query is no document's id and has no word longer than two
\* characters, findDocument returns the most recently updated document of
\* the store, the first in store order among equals, whatever its type and
\* trashed flag, and nothing only when the store is empty.
C27_NoWordsMeansLatest ==
  (Returned("findDocument")
     /\ \A i \in 1..Len(StoreDocs) : StoreDocs[i].id # result.query
     /\ WordsOf(result.query) = {}) =>
    /\ result.found <=> StoreDocs # <<>>
    /\ result.found =>
         \E i \in 1..Len(StoreDocs) :
           /\ result.doc = StoreDocs[i]
           /\ RecencyRank(1..Len(StoreDocs), i) = 1

\* C27's case: a query of two letters returns the most recent document, a
\* trashed meeting, and not the older untrashed one.
C27_Witness ==
  /\ Returned("findDocument") /\ result.query = qShort
  /\ StoreDocs = <<dSync, dTrashed>>
  /\ result.found /\ result.doc = dTrashed

\* ---------------------------------------------- organizer filter claim

\* C28: the organizer filter removes at most one attendee: the attendees of
\* extractParticipants are as many as those of extractAttendees(doc.people),
\* or one fewer.
C28_FilterRemovesAtMostOne ==
  Returned("extractParticipants") =>
    LET n == Len(extractAttendees(people).attendees)
    IN Len(result.attendees) = n \/ Len(result.attendees) = n - 1

\* C28's case: two raw entries carry the organizer's email in different
\* case, and one attendee was removed.
C28_Witness ==
  /\ Returned("extractParticipants") /\ result.hasOrganizer
  /\ Len(result.attendees) = Len(extractAttendees(people).attendees) - 1
  /\ \E i, j \in 1..Len(RawEntries(people)) :
       LET a == RawEntries(people)[i]
           b == RawEntries(people)[j]
       IN /\ i # j
          /\ Truthy(a.email) /\ Truthy(b.email)
          /\ a.email # b.email
          /\ LowerStr(a.email.s) = LowerStr(orgEmail.s)
          /\ LowerStr(b.email.s) = LowerStr(orgEmail.s)

\* ------------------------------------------------ failed reload claim

\* A call of loadCache that raised while reading or parsing.
ReloadFailed(r) == r.op = "loadCache" /\ r.threw /\ r.err \in {"read", "parse"}

\* C29: a loadCache call that raises while it reads or parses leaves the
\* cached state and the recorded modification time as they were, and the
\* file is still one the next call reloads.
C29_FailedReloadKeepsCache ==
  [][(pc' = "done" /\ ReloadFailed(result')) =>
       /\ cachedState' = cachedState
       /\ cacheModTime' = cacheModTime
       /\ ~CacheHit']_vars

\* C29's case: the reload of a rewritten file failed while the cache holds
\* the state and the time of an earlier version.
C29_Witness ==
  /\ pc = "done" /\ ReloadFailed(result)
  /\ file.content = BadInnerContent
  /\ cachedState = StateTwo /\ cacheModTime # file.mtime

\* ============================================ loadCache step by step
\* loadCache's calls to the file system as separate steps, with a writer
\* of the cache file between them.

\* The writes of the cache file while loadCache runs.
MaxWrites == 3

\* The state the writer stores with the write that sets the modification
\* time to m.
VersionState(m) ==
  State(<<Doc(<<"v">>, Undef, m, MeetingType, Undef)>>, <<>>, <<>>)

\* The writer rewrites (or creates) the cache file; the modification time
\* advances.
RaceWrite ==
  /\ file.mtime < MaxWrites
  /\ file' = [exists |-> TRUE, mtime |-> file.mtime + 1,
              content |-> OkContent(VersionState(file.mtime + 1))]
  /\ UNCHANGED <<attVars, clientVars, pc, result, platform, cachedState, cacheModTime,
                 modTime>>

\* loadCache up to existsSync(cachePath): the error when there is no file.
LoadExists ==
  /\ pc \in {"idle", "done"}
  /\ IF ~file.exists
       THEN /\ result' = StoreResult("loadCache", <<>>, Cache)
            /\ pc' = "done"
       ELSE /\ result' = NoResult
            /\ pc' = "exists"
  /\ UNCHANGED <<attVars, clientVars, cacheVars, modTime>>

\* statSync(cachePath) and the test of the cache: the cached state is
\* returned when the time seen is the recorded one.
LoadStat ==
  /\ pc = "exists"
  /\ modTime' = file.mtime
  /\ IF HasState(cachedState) /\ file.mtime = cacheModTime
       THEN /\ result' = StoreResult("loadCache", <<>>, Cache)
            /\ pc' = "done"
       ELSE /\ UNCHANGED result
            /\ pc' = "stat"
  /\ UNCHANGED <<attVars, clientVars, cacheVars>>

\* readFileSync, the parses and the assignments: the content is the one the
\* file has now, the time recorded is the one statSync gave.
LoadRead ==
  /\ pc = "stat"
  /\ LET l == loadCache(platform, [file EXCEPT !.mtime = modTime],
                        cachedState, cacheModTime)
     IN /\ result' = StoreResult("loadCache", <<>>, l)
        /\ cachedState' = l.cachedState
        /\ cacheModTime' = l.cacheModTime
  /\ pc' = "done"
  /\ UNCHANGED <<attVars, clientVars, platform, file, modTime>>

NextRace == RaceWrite \/ LoadExists \/ LoadStat \/ LoadRead

SpecRace == InitCache /\ [][NextRace]_vars

\* ------------------------------------------------------- race claim

\* The modification time of the write that stored a state.
VersionOf(s) == s.documents[1].updated_at

\* C30: with writes between the steps of loadCache, each advancing the
\* modification time, the recorded time is never newer than the version of
\* the cached state; a cached state that is not the file's content has a
\* recorded time other than the file's, so the next call reloads; and a call
\* that returned after a stat that saw the file's present time returned the
\* file's present content.
C30_RecordedTimeNeverNewer ==
  /\ HasState(cachedState) =>
       /\ cacheModTime <= VersionOf(cachedState)
       /\ cachedState # file.content.state => cacheModTime # file.mtime
  /\ (pc = "done" /\ result.op = "loadCache" /\ ~result.threw
        /\ modTime = file.mtime) =>
       result.state = file.content.state

\* C30's case: a write landed between stat and read, the cache holds the
\* newer content under the older time.
C30_Witness ==
  /\ pc = "done" /\ result.op = "loadCache" /\ ~result.threw
  /\ HasState(cachedState)
  /\ cacheModTime < VersionOf(cachedState)

\* ============================================================ token.ts

\* SUPABASE_PATHS[platform] || SUPABASE_PATHS.darwin
getSupabasePath(plat) ==
  CASE plat = "linux" -> "~/.config/Granola/supabase.json"
    [] plat = "win32" -> "~/AppData/Roaming/Granola/supabase.json"
    [] OTHER -> "~/Library/Application Support/Granola/supabase.json"

\* if (config.workos_tokens): the field is there and not the empty string.
hasField(field) == field.kind # "absent"

\* JSON.parse(field).access_token: JSON.parse raises on text that does not
\* parse, the property access raises on null, an object without the
\* property gives undefined.
accessTokenOf(field) ==
  CASE field.kind \in {"unparseable", "null"} -> Throw
    [] field.kind = "token" -> field.token
    [] OTHER -> Undef

\* What a call of extractGranolaToken or hasToken gives.
TokenResult(op, threw, err, path, token, value) ==
  [op |-> op, threw |-> threw, err |-> err, path |-> path, token |-> token,
   value |-> value]

\* The outcome of one try block of extractGranolaToken: the token it
\* returns, or nothing when the field is absent, raises or has no token.
tryField(field) ==
  IF hasField(field) /\ ~IsThrow(accessTokenOf(field))
       /\ Truthy(accessTokenOf(field))
    THEN accessTokenOf(field)
    ELSE Undef

\* extractGranolaToken whose WorkOS block does not catch.
extractGranolaTokenNoCatch(plat, cfg) ==
  LET op == "extractGranolaToken"
  IN IF cfg.kind = "absent"
       THEN TokenResult(op, TRUE, "config not found", getSupabasePath(plat),
                        Undef, FALSE)
     ELSE IF cfg.kind = "invalid"
       THEN TokenResult(op, TRUE, "parse", "", Undef, FALSE)
     ELSE IF cfg.kind = "null"
       THEN TokenResult(op, TRUE, "type", "", Undef, FALSE)
     ELSE IF hasField(cfg.workos) /\ IsThrow(accessTokenOf(cfg.workos))
       THEN TokenResult(op, TRUE, "parse", "", Undef, FALSE)
     ELSE IF Truthy(tryField(cfg.workos))
       THEN TokenResult(op, FALSE, "", "", tryField(cfg.workos), FALSE)
     ELSE IF Truthy(tryField(cfg.cognito))
       THEN TokenResult(op, FALSE, "", "", tryField(cfg.cognito), FALSE)
     ELSE TokenResult(op, TRUE, "no token", "", Undef, FALSE)

\* extractGranolaToken(): the config file must exist and parse to an object;
\* then the WorkOS token, else the Cognito token, else the error.
extractGranolaToken(plat, cfg) ==
  LET op == "extractGranolaToken"
  IN IF cfg.kind = "absent"
       THEN TokenResult(op, TRUE, "config not found", getSupabasePath(plat),
                        Undef, FALSE)
     ELSE IF cfg.kind = "invalid"
       THEN TokenResult(op, TRUE, "parse", "", Undef, FALSE)
     ELSE IF cfg.kind = "null"
       THEN TokenResult(op, TRUE, "type", "", Undef, FALSE)
     ELSE IF Truthy(tryField(cfg.workos))
       THEN TokenResult(op, FALSE, "", "", tryField(cfg.workos), FALSE)
     ELSE IF Truthy(tryField(cfg.cognito))
       THEN TokenResult(op, FALSE, "", "", tryField(cfg.cognito), FALSE)
     ELSE TokenResult(op, TRUE, "no token", "", Undef, FALSE)

\* hasToken(): one try block around everything; whatever raises inside it
\* makes the result false.
hasToken(plat, cfg) ==
  LET op == "hasToken"
      raises(field) == hasField(field) /\ IsThrow(accessTokenOf(field))
      value ==
        IF cfg.kind # "object" THEN FALSE
        ELSE IF raises(cfg.workos) THEN FALSE
        ELSE IF Truthy(tryField(cfg.workos)) THEN TRUE
        ELSE IF raises(cfg.cognito) THEN FALSE
        ELSE Truthy(tryField(cfg.cognito))
  IN TokenResult(op, FALSE, "", "", Undef, value)

\* ------------------------------------------------------ token inputs

tokW == Str(<<"W">>)
tokC == Str(<<"C">>)

\* The values of a token field: absent, unparseable, null, an object without
\* access_token, with an empty one, and with a token.
FieldsWith(token) ==
  {AbsentField, TokenField("unparseable", Undef), TokenField("null", Undef),
   TokenField("object", Undef), TokenField("token", Str(<<>>)),
   TokenField("token", token)}

Configs ==
  {NoConfig, ConfigFile("invalid", AbsentField, AbsentField),
   ConfigFile("null", AbsentField, AbsentField)}
  \cup {ConfigFile("object", w, c) :
          w \in FieldsWith(tokW), c \in FieldsWith(tokC)}

\* ------------------------------------------------ token specification

InitToken ==
  /\ NoExtraction
  /\ platform \in Platforms
  /\ file = FileAbsent
  /\ cachedState = NullState /\ cacheModTime = 0 /\ modTime = 0
  /\ config \in Configs
  /\ pager = PagerIdle

\* await extractGranolaToken()
CallExtractGranolaToken ==
  /\ pc = "idle"
  /\ result' = extractGranolaToken(platform, config)
  /\ pc' = "done"
  /\ UNCHANGED <<attVars, clientVars, cacheVars, modTime>>

\* hasToken()
CallHasToken ==
  /\ pc = "idle"
  /\ result' = hasToken(platform, config)
  /\ pc' = "done"
  /\ UNCHANGED <<attVars, clientVars, cacheVars, modTime>>

NextToken == CallExtractGranolaToken \/ CallHasToken

SpecToken == InitToken /\ [][NextToken]_vars

\* ------------------------------------------------------- token claims

\* C24: for a config file that is absent or parses to an object,
\* extractGranolaToken raises 'config not found' with the path when the file
\* is absent, else returns the WorkOS access_token when workos_tokens parses
\* to an object with a non-empty one, else the Cognito access_token when
\* cognito_tokens does, else raises 'No valid access token'.
C24_TokenPrecedence ==
  (pc = "done" /\ result.op = "extractGranolaToken"
     /\ config.kind \in {"absent", "object"}) =>
    LET good(f) == f.kind = "token" /\ f.token # Str(<<>>)
    IN IF config.kind = "absent"
         THEN /\ result.threw /\ result.err = "config not found"
              /\ result.path = getSupabasePath(platform)
       ELSE IF good(config.workos)
         THEN ~result.threw /\ result.token = config.workos.token
       ELSE IF good(config.cognito)
         THEN ~result.threw /\ result.token = config.cognito.token
       ELSE result.threw /\ result.err = "no token"

\* C24's case: workos_tokens does not parse and the Cognito token is
\* returned.
C24_Witness ==
  /\ pc = "done" /\ result.op = "extractGranolaToken"
  /\ config.kind = "object" /\ config.workos.kind = "unparseable"
  /\ ~result.threw /\ result.token = tokC

\* C25: hasToken does not raise, and returns true exactly when
\* extractGranolaToken returns a token for the same config file.
C25_HasTokenAgrees ==
  LET listed(f) == \/ f.kind \in {"absent", "unparseable", "object"}
                   \/ f.kind = "token" /\ f.token # Str(<<>>)
  IN (/\ pc = "done" /\ result.op = "hasToken"
      /\ config.kind = "object"
      /\ listed(config.workos) /\ listed(config.cognito)) =>
       /\ ~result.threw
       /\ result.value <=> ~extractGranolaToken(platform, config).threw

\* ============================================= index.ts, listAllDocuments

MaxPages == 3

\* A DocumentsResponse as response.json() gives it: null, or an object whose
\* docs is an array or missing and whose next_cursor is a string or missing.
Response(docs, next_cursor) ==
  [t |-> "obj", docs |-> docs, next_cursor |-> next_cursor]
NullResponse ==
  [t |-> "null", docs |-> [t |-> "undef", items |-> <<>>], next_cursor |-> Undef]
DocArray(items) == [t |-> "array", items |-> items]
NoDocArray == [t |-> "undef", items |-> <<>>]

\* The page's documents that are all dropped but the first.
pageDocsFirstOnly(response) ==
  IF response.t = "obj" /\ response.docs.t = "array"
       /\ response.docs.items # <<>>
    THEN <<response.docs.items[1]>>
    ELSE <<>>

\* if (response?.docs) for (const doc of response.docs): the documents the
\* page contributes.
pageDocs(response) ==
  IF response.t = "obj" /\ response.docs.t = "array"
    THEN response.docs.items
    ELSE <<>>

\* response?.next_cursor
nextCursor(response) ==
  IF response.t = "obj" THEN response.next_cursor ELSE Undef

curA == Str(<<"A">>)
curB == Str(<<"B">>)

\* What the server may answer: a null body, and every pairing of docs
\* (missing, empty, one, two documents) with next_cursor (missing, empty,
\* two cursors).
Responses ==
  {NullResponse}
  \cup {Response(d, c) :
          d \in {NoDocArray, DocArray(<<>>), DocArray(<<"d1">>),
                 DocArray(<<"d2", "d3">>)},
          c \in {Undef, Str(<<>>), curA, curB}}

\* const response = await this.getDocuments({ ...options, cursor }): the
\* request goes out with the current cursor.
PagerRequest ==
  /\ pager.at \in {"idle", "loop"}
  /\ Len(pager.requests) < MaxPages
  /\ pager' = [pager EXCEPT !.at = "await",
                            !.requests = Append(@, pager.cursor)]
  /\ UNCHANGED <<attVars, cacheVars, modTime, config, pc, result>>

\* The request resolves with a response of the server's choosing.
PagerResponse ==
  /\ pager.at = "await"
  /\ \E response \in Responses :
       pager' = [pager EXCEPT !.at = "yield",
                              !.responses = Append(@, response),
                              !.next = 1]
  /\ UNCHANGED <<attVars, cacheVars, modTime, config, pc, result>>

\* The request rejects (no token, an HTTP error, the timeout's abort): the
\* generator raises.
PagerFail ==
  /\ pager.at = "await"
  /\ pager' = [pager EXCEPT !.at = "failed"]
  /\ UNCHANGED <<attVars, cacheVars, modTime, config, pc, result>>

\* yield doc
PagerYield ==
  /\ pager.at = "yield"
  /\ pager.next <= Len(pageDocs(pager.responses[Len(pager.responses)]))
  /\ pager' =
       [pager EXCEPT
          !.yielded =
             Append(@, pageDocs(pager.responses[Len(pager.responses)])[pager.next]),
          !.next = @ + 1]
  /\ UNCHANGED <<attVars, cacheVars, modTime, config, pc, result>>

\* cursor = response?.next_cursor; } while (cursor);
PagerAdvance ==
  /\ pager.at = "yield"
  /\ pager.next > Len(pageDocs(pager.responses[Len(pager.responses)]))
  /\ LET cursor == nextCursor(pager.responses[Len(pager.responses)])
     IN pager' = [pager EXCEPT !.cursor = cursor,
                               !.at = IF Truthy(cursor) THEN "loop" ELSE "done"]
  /\ UNCHANGED <<attVars, cacheVars, modTime, config, pc, result>>

NextPager ==
  PagerRequest \/ PagerResponse \/ PagerFail \/ PagerYield \/ PagerAdvance

InitPager ==
  /\ NoExtraction
  /\ platform = "darwin"
  /\ file = FileAbsent
  /\ CacheUnloaded
  /\ NoClient

\* The consumer keeps asking for the next document, and every request
\* resolves or rejects within the client's timeout.
SpecPager == InitPager /\ [][NextPager]_vars /\ WF_vars(NextPager)

\* ------------------------------------------------------- pager claim

\* The documents a response lists, none when it is null or has no docs.
DocsOf(response) ==
  IF response.t = "null" \/ response.docs.t = "undef"
    THEN <<>>
    ELSE response.docs.items

\* The response's next_cursor is absent or empty.
LastPage(response) ==
  \/ response.t = "null"
  \/ response.next_cursor \in {Undef, Str(<<>>)}

RECURSIVE docsOfPages(_)
docsOfPages(responses) ==
  IF responses = <<>> THEN <<>>
  ELSE docsOfPages(SubSeq(responses, 1, Len(responses) - 1))
         \o DocsOf(responses[Len(responses)])

\* The last response has arrived and its next_cursor is absent or empty.
FinalPage ==
  /\ pager.at = "yield"
  /\ LastPage(pager.responses[Len(pager.responses)])

PagerOrder ==
  LET n == Len(pager.responses)
      m == Len(pager.requests)
  IN /\ m = IF pager.at \in {"await", "failed"} THEN n + 1 ELSE n
     /\ m >= 1 => pager.requests[1] = Undef
     /\ \A k \in 1..(m - 1) :
          /\ ~LastPage(pager.responses[k])
          /\ pager.requests[k + 1] = pager.responses[k].next_cursor
     /\ pager.at = "yield" =>
          pager.yielded =
            docsOfPages(SubSeq(pager.responses, 1, n - 1))
              \o SubSeq(DocsOf(pager.responses[n]), 1, pager.next - 1)
     /\ pager.at # "yield" => pager.yielded = docsOfPages(pager.responses)
     /\ pager.at = "done" => n >= 1 /\ LastPage(pager.responses[n])
     /\ pager.at = "loop" => n >= 1 /\ ~LastPage(pager.responses[n])

\* C26: listAllDocuments yields the documents of every page in page order
\* then in-page order; the first request carries no cursor and each later one
\* the next_cursor of the response before it; it is done only after a
\* response whose next_cursor is absent or empty, every earlier response
\* having a cursor; once such a response arrives it does get done; and a
\* response with a cursor is followed by the next request whatever its docs.
C26_Pagination ==
  /\ []PagerOrder
  /\ FinalPage ~> (pager.at = "done")
  /\ \A k \in 1..(MaxPages - 1) :
       (Len(pager.responses) = k /\ ~LastPage(pager.responses[k]))
         ~> (Len(pager.requests) > k)

\* C26's case: three pages, the second without documents, all of the first
\* and third yielded in order, then done.
C26_Witness ==
  /\ pager.at = "done"
  /\ Len(pager.responses) = 3
  /\ DocsOf(pager.responses[2]) = <<>>
  /\ pager.yielded = <<"d1", "d2", "d3">>

====
